---- MODULE Spec2Model ----
(***************************************************************************)
(* TotalNews: fetch posts of public Telegram channels, filter them, and    *)
(* relay the survivors to district chats through the Bot API               *)
(* (src/TotalNews17.py; TotalNews16.py and TotalNews19.py are variants).   *)
(*                                                                         *)
(* Strings are run-length encoded: a string is a sequence of runs <<c, n>> *)
(* (n >= 1 copies of the character c) in which neighbouring runs have      *)
(* different characters, so that equal strings have equal encodings and    *)
(* the program's real size limits (1024, 4096) stay computable.            *)
(***************************************************************************)
EXTENDS Integers, Sequences, FiniteSets, TLC

VARIABLES
    text,       \* _split_chunks: the argument `text`
    limit,      \* _split_chunks: the argument `limit`
    parts,      \* _split_chunks: the returned list (<<>> before the call)
    now,        \* the clock, in seconds
    CHAT_CHECK_CACHE,   \* normalized chat -> <<ok, ts>>, None when absent
    call,       \* the call of send_item or tg_send_message that has just
                \* run and not yet returned to its caller
    lastQuery,  \* history: per chat, <<time, outcome>> of the latest getChat
                \* query of this process, None before the first
    db,         \* the table `sent`: rows <<chat, key, sent_at_utc>>
    pc,         \* where process_district stands: "idle", "fetched", "loop", "done"
    district,   \* process_district: the argument `district`
    raw,        \* process_district: the local `raw`
    page,       \* history: the posts the pages of this run showed, before
                \* the fetcher compared their times with its cutoff
    filtered,   \* process_district: the local `filtered`, sorted
    idx,        \* process_district: position of the loop in filtered (from 1)
    sent,       \* process_district: the local counter `sent`
    dispatched, \* history: the calls of send_item of this run, in order:
                \* [item, pos (the item's place in raw), ok]
    replay,     \* history: at the fetch, the table held the key of every
                \* fetched item for the run's chat
    delivered,  \* history: the <<chat, key>> whose send_item returned True
    runs,       \* the number of runs of process_district started
    fetching,   \* fetch_tg_channel_posts_no_login: its arguments, locals and
                \* the history of its requests
    classifying, \* looks_like_ad: its argument, locals and result
    keying,     \* _make_dedup_key: two calls, their arguments and results
    storing,    \* history: the latest call of already_sent or mark_sent
    preparing,  \* send_item with prepare_media: the candidates, the place
                \* of the walk and the history of the downloads
    downloading, \* download_binary: its arguments, locals and result
    sanitizing, \* sanitize: its argument, the text after each stage
    retrying,   \* _get_with_retries: its locals and the history of its
                \* attempts and sleeps
    locating,   \* mentions_local: its arguments and result
    walking     \* main: the place of the walk over the targets and their
                \* items, and the history of what was handled

chunkVars == <<text, limit, parts>>
botVars == <<now, CHAT_CHECK_CACHE, call, lastQuery>>
runVars == <<db, pc, district, raw, page, filtered, idx, sent, dispatched, replay,
             delivered, runs>>
fnVars == <<fetching, classifying, keying, storing, preparing, downloading,
            sanitizing, retrying, locating, walking>>
besidesFetching == <<classifying, keying, storing, preparing, downloading,
    sanitizing, retrying, locating, walking>>
besidesClassifying == <<fetching, keying, storing, preparing, downloading,
    sanitizing, retrying, locating, walking>>
besidesKeying == <<fetching, classifying, storing, preparing, downloading,
    sanitizing, retrying, locating, walking>>
besidesStoring == <<fetching, classifying, keying, preparing, downloading,
    sanitizing, retrying, locating, walking>>
besidesMedia == <<fetching, classifying, keying, storing,
    sanitizing, retrying, locating, walking>>
besidesSanitizing == <<fetching, classifying, keying, storing, preparing, downloading,
    retrying, locating, walking>>
besidesRetrying == <<fetching, classifying, keying, storing, preparing, downloading,
    sanitizing, locating, walking>>
besidesLocating == <<fetching, classifying, keying, storing, preparing, downloading,
    sanitizing, retrying, walking>>
besidesWalking == <<fetching, classifying, keying, storing, preparing, downloading,
    sanitizing, retrying, locating>>
vars == <<text, limit, parts, now, CHAT_CHECK_CACHE, call, lastQuery,
          db, pc, district, raw, page, filtered, idx, sent, dispatched, replay,
          delivered, runs, fetching, classifying, keying, storing, preparing,
          downloading, sanitizing, retrying, locating, walking>>

----------------------------------------------------------------------------
(* Bounds of the model *)

MaxRuns == 3        \* a drawn text has at most this many runs
MaxLimit == 4       \* small chunk limits 1..MaxLimit are drawn
MaxTime == 3600     \* the clock stops here
TickStep == 1800    \* the clock advances by this much
MaxSendLines == 2   \* a text handed to tg_send_message has at most this many lines
MaxMixed == 2       \* fetched batches of up to this many posts of any kind
MaxBatch == 6       \* the long fetched batch has this many distinct posts
MaxRunCount == 2    \* process_district runs at most this many times
MaxWait == 1800     \* the clock of a run advances up to here
MaxHandles == 2     \* a list of handles given to the fetcher has up to this many

----------------------------------------------------------------------------
(* Strings *)

NL == "\n"

StrLen(s) ==
    LET RECURSIVE Sum(_)
        Sum(i) == IF i = 0 THEN 0 ELSE s[i][2] + Sum(i - 1)
    IN Sum(Len(s))

\* a + b
Cat(a, b) ==
    IF a = <<>> THEN b
    ELSE IF b = <<>> THEN a
    ELSE IF a[Len(a)][1] = b[1][1]
         THEN SubSeq(a, 1, Len(a) - 1)
              \o << <<b[1][1], a[Len(a)][2] + b[1][2]>> >>
              \o Tail(b)
         ELSE a \o b

\* s[:k]
RECURSIVE Slice(_, _)
Slice(s, k) ==
    IF k <= 0 \/ s = <<>> THEN <<>>
    ELSE IF s[1][2] >= k THEN << <<s[1][1], k>> >>
    ELSE << s[1] >> \o Slice(Tail(s), k - s[1][2])

\* s.split("\n"): the list of lines, never empty ("" gives [""])
RECURSIVE SplitAcc(_, _, _)
SplitAcc(s, cur, acc) ==
    IF s = <<>> THEN Append(acc, cur)
    ELSE IF s[1][1] = NL
         THEN SplitAcc(Tail(s), <<>>,
                       Append(acc, cur) \o [i \in 1..(s[1][2] - 1) |-> <<>>])
         ELSE SplitAcc(Tail(s), Append(cur, s[1]), acc)

SplitNL(s) == SplitAcc(s, <<>>, <<>>)

\* "\n".join(lines)
RECURSIVE JoinNL(_)
JoinNL(lines) ==
    IF lines = <<>> THEN <<>>
    ELSE IF Len(lines) = 1 THEN lines[1]
    ELSE Cat(Cat(lines[1], << <<NL, 1>> >>), JoinNL(Tail(lines)))

----------------------------------------------------------------------------
(* _split_chunks *)

\* A seeded fault: the chunk opened after a flush starts empty, so the
\* line that triggered the flush is lost.
RECURSIVE SplitLoopDropsLine(_, _, _, _, _)
SplitLoopDropsLine(lines, lim, ps, current, cur_len) ==
    IF lines = <<>>
    THEN IF current # <<>> THEN Append(ps, JoinNL(current)) ELSE ps
    ELSE LET line == Head(lines)
             ln == StrLen(line) + 1
         IN IF cur_len + ln > lim /\ current # <<>>
            THEN SplitLoopDropsLine(Tail(lines), lim,
                                    Append(ps, JoinNL(current)), <<>>, 0)
            ELSE SplitLoopDropsLine(Tail(lines), lim, ps,
                                    Append(current, line), cur_len + ln)

\* The loop over text.split("\n"): ps, current and cur_len are the
\* locals parts, current and cur_len.
RECURSIVE SplitLoop(_, _, _, _, _)
SplitLoop(lines, lim, ps, current, cur_len) ==
    IF lines = <<>>
    THEN IF current # <<>> THEN Append(ps, JoinNL(current)) ELSE ps
    ELSE LET line == Head(lines)
             ln == StrLen(line) + 1
         IN IF cur_len + ln > lim /\ current # <<>>
            THEN SplitLoop(Tail(lines), lim,
                           Append(ps, JoinNL(current)), <<line>>, ln)
            ELSE SplitLoop(Tail(lines), lim, ps,
                           Append(current, line), cur_len + ln)

\* the limit tg_send_message splits at
TG_TEXT_LIMIT == 4096

_split_chunks(t, lim) ==
    IF StrLen(t) <= lim THEN <<t>>
    ELSE SplitLoop(SplitNL(t), lim, <<>>, <<>>, 0)

----------------------------------------------------------------------------
(* Network *)

\* What one HTTP request does: "ok" is a response with status 200 and a
\* JSON body whose ok flag is true, "bad" is any other response, "raise"
\* is a transport exception (timeout, connection failure).
Outcomes == {"ok", "bad", "raise"}
Responses == {"ok", "bad"}

\* The runs of a retry loop from attempt number `attempt` on: a run is the
\* sequence of the outcomes of its requests. It ends with the first
\* response, or with "raise" when the last attempt raised (the exception
\* is then re-raised to the caller).
RECURSIVE RetryRuns(_, _)
RetryRuns(attempt, retries) ==
    { <<r>> : r \in Responses }
    \cup (IF attempt + 1 = retries
          THEN { <<"raise">> }
          ELSE { <<"raise">> \o run : run \in RetryRuns(attempt + 1, retries) })

GET_RETRIES == 3
POST_RETRIES == 2

_get_with_retries == RetryRuns(0, GET_RETRIES)

_post_with_retries == RetryRuns(0, POST_RETRIES)

Last(run) == run[Len(run)]

----------------------------------------------------------------------------
(* Chat identifiers *)

\* A chat identifier is <<form, name>>: <<"at", n>> is "@n", <<"tme", n>>
\* is "https://t.me/n" with n a valid user name, <<"invite", n>> is
\* "https://t.me/+n", an invite link that has no user name.
normalize_chat_id(chat) ==
    IF chat[1] = "at" THEN chat
    ELSE IF chat[1] = "tme" THEN <<"at", chat[2]>>
    ELSE chat

\* Two of the districts of main, which share their sources
Districts == {"Presnenskiy", "Akademicheskiy"}

CHATS ==
    [d \in Districts |->
        IF d = "Presnenskiy" THEN <<"tme", "PresnenskiyLife">>
        ELSE <<"tme", "AkademicheskiyLife">>]

ChatIds == { normalize_chat_id(CHATS[d]) : d \in Districts }

----------------------------------------------------------------------------
(* Bot API calls.  Each operator gives the set of the runs the call can   *)
(* make, one per behaviour of the network.  A run is a record: ok is the  *)
(* returned value, cache the CHAT_CHECK_CACHE the call leaves, log the    *)
(* sequence of what happened: the HTTP requests issued (api getChat,      *)
(* sendMessage, sendPhoto, sendVideo; res the request's outcome) and, at  *)
(* its return, each call of tg_check_chat, tg_send_media_upload and       *)
(* tg_send_message (res "True" or "False", text its text argument).       *)

CHAT_CHECK_TTL == 3600

None == <<>>

Bool(b) == IF b THEN "True" ELSE "False"

Entry(api, chat, chunk, txt, res) ==
    [api |-> api, chat |-> chat, chunk |-> chunk, text |-> txt, res |-> res]

Requests(api, chat, chunk, txt, run) ==
    [k \in 1..Len(run) |-> Entry(api, chat, chunk, txt, run[k])]

\* A seeded fault: only a cached True is trusted, a cached False is
\* queried again.
tg_check_chat_trusts_only_true(cache, t, chat) ==
    LET chat_norm == normalize_chat_id(chat)
        cached == cache[chat_norm]
    IN IF cached # None /\ cached[1] /\ t - cached[2] < CHAT_CHECK_TTL
       THEN { [ok |-> cached[1], cache |-> cache,
               log |-> << Entry("tg_check_chat", chat_norm, 0, <<>>, Bool(cached[1])) >>] }
       ELSE { [ok |-> Last(run) = "ok",
               cache |-> [cache EXCEPT ![chat_norm] = <<Last(run) = "ok", t>>],
               log |-> Requests("getChat", chat_norm, 0, <<>>, run)
                       \o << Entry("tg_check_chat", chat_norm, 0, <<>>,
                                   Bool(Last(run) = "ok")) >>]
              : run \in _get_with_retries }

\* t is time.time() at the call.  A run of _get_with_retries that ends in
\* "bad" or in "raise" caches and returns False.
tg_check_chat(cache, t, chat) ==
    LET chat_norm == normalize_chat_id(chat)
        cached == cache[chat_norm]
    IN IF cached # None /\ t - cached[2] < CHAT_CHECK_TTL
       THEN { [ok |-> cached[1], cache |-> cache,
               log |-> << Entry("tg_check_chat", chat_norm, 0, <<>>, Bool(cached[1])) >>] }
       ELSE { [ok |-> Last(run) = "ok",
               cache |-> [cache EXCEPT ![chat_norm] = <<Last(run) = "ok", t>>],
               log |-> Requests("getChat", chat_norm, 0, <<>>, run)
                       \o << Entry("tg_check_chat", chat_norm, 0, <<>>,
                                   Bool(Last(run) = "ok")) >>]
              : run \in _get_with_retries }

SEND_ATTEMPTS == 2

\* The runs of `for _ in range(2)` for one chunk from attempt k on: ok is
\* FALSE when the loop ends without break (its else branch).
RECURSIVE ChunkRuns(_, _, _, _)
ChunkRuns(chat_norm, ci, chunk, k) ==
    IF k = SEND_ATTEMPTS THEN { [ok |-> FALSE, log |-> <<>>] }
    ELSE UNION {
        IF Last(run) = "ok"
        THEN { [ok |-> TRUE,
                log |-> Requests("sendMessage", chat_norm, ci, chunk, run)] }
        ELSE { [ok |-> rest.ok,
                log |-> Requests("sendMessage", chat_norm, ci, chunk, run) \o rest.log]
               : rest \in ChunkRuns(chat_norm, ci, chunk, k + 1) }
        : run \in _post_with_retries }

\* A seeded fault: each chunk overwrites ok_all with its own result, so the
\* last chunk alone decides the returned value.
RECURSIVE SendChunksLastWins(_, _, _, _)
SendChunksLastWins(chat_norm, chunks, ci, ok_all) ==
    IF ci > Len(chunks) THEN { [ok |-> ok_all, log |-> <<>>] }
    ELSE UNION {
        { [ok |-> rest.ok, log |-> c.log \o rest.log]
          : rest \in SendChunksLastWins(chat_norm, chunks, ci + 1, c.ok) }
        : c \in ChunkRuns(chat_norm, ci, chunks[ci], 0) }

\* A seeded fault: the loop over the chunks ends at the first chunk that
\* failed all its attempts.
RECURSIVE SendChunksStopAtFailure(_, _, _, _)
SendChunksStopAtFailure(chat_norm, chunks, ci, ok_all) ==
    IF ci > Len(chunks) THEN { [ok |-> ok_all, log |-> <<>>] }
    ELSE UNION {
        IF ~c.ok THEN { [ok |-> FALSE, log |-> c.log] }
        ELSE { [ok |-> rest.ok, log |-> c.log \o rest.log]
               : rest \in SendChunksStopAtFailure(chat_norm, chunks, ci + 1, ok_all) }
        : c \in ChunkRuns(chat_norm, ci, chunks[ci], 0) }

\* The runs of `for chunk in _split_chunks(...)` from chunk ci on, with
\* the local ok_all.
RECURSIVE SendChunks(_, _, _, _)
SendChunks(chat_norm, chunks, ci, ok_all) ==
    IF ci > Len(chunks) THEN { [ok |-> ok_all, log |-> <<>>] }
    ELSE UNION {
        { [ok |-> rest.ok, log |-> c.log \o rest.log]
          : rest \in SendChunks(chat_norm, chunks, ci + 1, ok_all /\ c.ok) }
        : c \in ChunkRuns(chat_norm, ci, chunks[ci], 0) }

tg_send_message(cache, t, chat, plain_text) ==
    LET chat_norm == normalize_chat_id(chat)
    IN UNION {
        IF ~chk.ok
        THEN { [ok |-> FALSE, cache |-> chk.cache,
                log |-> chk.log
                        \o << Entry("tg_send_message", chat_norm, 0, plain_text, "False") >>] }
        ELSE { [ok |-> s.ok, cache |-> chk.cache,
                log |-> chk.log \o s.log
                        \o << Entry("tg_send_message", chat_norm, 0, plain_text, Bool(s.ok)) >>]
               : s \in SendChunks(chat_norm, _split_chunks(plain_text, TG_TEXT_LIMIT), 1, TRUE) }
        : chk \in tg_check_chat(cache, t, chat_norm) }

\* The runs of `for _ in range(2)` of tg_send_media_upload from attempt k
\* on: ok is FALSE when the loop ends without a successful response.
RECURSIVE UploadRuns(_, _, _, _)
UploadRuns(chat_norm, api, caption, k) ==
    IF k = SEND_ATTEMPTS THEN { [ok |-> FALSE, log |-> <<>>] }
    ELSE UNION {
        IF Last(run) = "ok"
        THEN { [ok |-> TRUE, log |-> Requests(api, chat_norm, 0, caption, run)] }
        ELSE { [ok |-> rest.ok,
                log |-> Requests(api, chat_norm, 0, caption, run) \o rest.log]
               : rest \in UploadRuns(chat_norm, api, caption, k + 1) }
        : run \in _post_with_retries }

\* media is an asset [name, kind]; no reachability check is made here.
tg_send_media_upload(chat, media, caption) ==
    LET chat_norm == normalize_chat_id(chat)
        api == IF media.kind = "image" THEN "sendPhoto" ELSE "sendVideo"
    IN { [ok |-> u.ok,
          log |-> u.log
                  \o << Entry("tg_send_media_upload", chat_norm, 0, caption, Bool(u.ok)) >>]
         : u \in UploadRuns(chat_norm, api, caption, 0) }

----------------------------------------------------------------------------
(* Text utilities.  The texts of the model are written with Latin        *)
(* letters, the space, the newline and punctuation: no sender phrase or  *)
(* invite marker (Russian words) occurs in them, so of those two stages  *)
(* of sanitize only the trimming can act.                                *)

SP == " "
DOT == "."
EMDASH == "emdash"

WhiteSpace == {SP, NL}

\* s.lstrip(chars), s.rstrip(chars), s.strip() for a set of characters
RECURSIVE LStrip(_, _)
LStrip(s, chars) ==
    IF s # <<>> /\ s[1][1] \in chars THEN LStrip(Tail(s), chars) ELSE s

RECURSIVE RStrip(_, _)
RStrip(s, chars) ==
    IF s # <<>> /\ s[Len(s)][1] \in chars
    THEN RStrip(SubSeq(s, 1, Len(s) - 1), chars)
    ELSE s

Strip(s) == RStrip(LStrip(s, WhiteSpace), WhiteSpace)

\* The string holds the character.
RECURSIVE Holds(_, _)
Holds(str, c) ==
    IF str = <<>> THEN FALSE
    ELSE str[1][1] = c \/ Holds(Tail(str), c)

\* The characters of a string, one by one, and back.
RECURSIVE Unpack(_)
Unpack(t) ==
    IF t = <<>> THEN <<>>
    ELSE [i \in 1..t[1][2] |-> t[1][1]] \o Unpack(Tail(t))

RECURSIVE Pack(_)
Pack(cs) ==
    IF cs = <<>> THEN <<>> ELSE Cat(<< <<cs[1], 1>> >>, Pack(Tail(cs)))

\* [A-Za-z0-9_] among the characters of the model
WordChars == {"a", "b", "c", "h", "t", "p", "s", "m", "e"}

\* The literal lit stands at place i.
Prefix(cs, i, lit) ==
    /\ i + Len(lit) - 1 <= Len(cs)
    /\ SubSeq(cs, i, i + Len(lit) - 1) = lit

\* How many characters from place i on are (inside) or are not (~inside)
\* in the set.
RECURSIVE Span(_, _, _, _)
Span(cs, i, chars, inside) ==
    IF i > Len(cs) \/ (cs[i] \in chars) # inside THEN 0
    ELSE 1 + Span(cs, i + 1, chars, inside)

\* "https://", "http://" and "t.me/"
URL_HEADS ==
    { <<"h", "t", "t", "p", "s", ":", "/", "/">>,
      <<"h", "t", "t", "p", ":", "/", "/">>,
      <<"t", ".", "m", "e", "/">> }

\* The length of the match of r"https?://\S+|t\.me/\S+" at place i, 0
\* for no match.
UrlAt(cs, i) ==
    LET heads == { h \in URL_HEADS : Prefix(cs, i, h) }
    IN IF heads = {} THEN 0
       ELSE LET n == Len(CHOOSE h \in heads : TRUE)
                rest == Span(cs, i + n, WhiteSpace, FALSE)
            IN IF rest > 0 THEN n + rest ELSE 0

\* r"@[A-Za-z0-9_]+"
MentionAt(cs, i) ==
    IF cs[i] = "@" /\ Span(cs, i + 1, WordChars, TRUE) > 0
    THEN 1 + Span(cs, i + 1, WordChars, TRUE)
    ELSE 0

\* r"(?:^|\s)#[^\s#]+"
HashtagAt(cs, i) ==
    LET tag(j) == Span(cs, j, WhiteSpace \cup {"#"}, FALSE)
    IN IF i = 1 /\ cs[i] = "#" /\ tag(i + 1) > 0 THEN 1 + tag(i + 1)
       ELSE IF /\ cs[i] \in WhiteSpace
               /\ i + 1 <= Len(cs) /\ cs[i + 1] = "#"
               /\ tag(i + 2) > 0
            THEN 2 + tag(i + 2)
            ELSE 0

MatchAt(pattern, cs, i) ==
    CASE pattern = "url" -> UrlAt(cs, i)
      [] pattern = "mention" -> MentionAt(cs, i)
      [] pattern = "hashtag" -> HashtagAt(cs, i)

\* re.sub(pattern, "", cs) from place i on: the matches, found from left
\* to right, are left out.
RECURSIVE Remove(_, _, _)
Remove(cs, i, pattern) ==
    IF i > Len(cs) THEN <<>>
    ELSE IF MatchAt(pattern, cs, i) > 0
         THEN Remove(cs, i + MatchAt(pattern, cs, i), pattern)
         ELSE << cs[i] >> \o Remove(cs, i + 1, pattern)

\* A text without "/" holds no URL, one without "@" no mention, one
\* without "#" no hashtag.
strip_urls(t) ==
    IF ~Holds(t, "/") THEN Strip(t)
    ELSE Strip(Pack(Remove(Unpack(t), 1, "url")))

remove_mentions(t) ==
    IF ~Holds(t, "@") THEN Strip(t)
    ELSE Strip(Pack(Remove(Unpack(t), 1, "mention")))

strip_hashtags_simple(t) ==
    IF ~Holds(t, "#") THEN t
    ELSE Pack(Remove(Unpack(t), 1, "hashtag"))

remove_sender_phrases(t) == t

drop_after_subscribe_calls(t) ==
    IF t = <<>> THEN t ELSE RStrip(t, {SP, DOT, ",", "!", EMDASH, "-"})

\* runs of spaces become one space, runs of 3 or more newlines become 2
collapse_ws_keep_newlines(t) ==
    Strip([i \in 1..Len(t) |->
             IF t[i][1] = SP THEN <<SP, 1>>
             ELSE IF t[i][1] = NL /\ t[i][2] >= 3 THEN <<NL, 2>>
             ELSE t[i]])

sanitize(t) ==
    collapse_ws_keep_newlines(
        drop_after_subscribe_calls(
            remove_sender_phrases(
                strip_hashtags_simple(
                    remove_mentions(
                        strip_urls(t))))))

\* re.split(r"(?<=[\.\!\?...])\s+|\n+", text), each part stripped and the
\* empty parts dropped: a part ends at a newline and at white space that
\* follows a full stop.  prev is the character before s.
RECURSIVE SentAcc(_, _, _, _)
SentAcc(s, prev, cur, acc) ==
    LET flushed == IF Strip(cur) = <<>> THEN acc ELSE Append(acc, Strip(cur))
    IN IF s = <<>> THEN flushed
       ELSE IF s[1][1] = NL \/ (s[1][1] = SP /\ prev = DOT)
            THEN SentAcc(Tail(s), s[1][1], <<>>, flushed)
            ELSE SentAcc(Tail(s), s[1][1], Append(cur, s[1]), acc)

sentences(t) == SentAcc(t, "", <<>>, <<>>)

\* " ".join(parts)
RECURSIVE JoinSP(_)
JoinSP(ps) ==
    IF ps = <<>> THEN <<>>
    ELSE IF Len(ps) = 1 THEN ps[1]
    ELSE Cat(Cat(ps[1], << <<SP, 1>> >>), JoinSP(Tail(ps)))

CAPTION_LIMIT == 1024

\* A seeded fault: the caption is not cut.
build_caption_uncut(title, summary) ==
    LET t0 == sanitize(title)
        s0 == sanitize(summary)
        sep == << <<SP, 1>>, <<EMDASH, 1>>, <<SP, 1>> >>
    IN Strip(IF s0 # <<>> THEN Cat(t0, Cat(sep, s0)) ELSE t0)

build_caption(title, summary) ==
    LET t0 == sanitize(title)
        s0 == sanitize(summary)
        s == sentences(s0)
        t1 == IF t0 # <<>> THEN t0
              ELSE IF s # <<>> THEN s[1] ELSE Slice(s0, 140)
        s1 == IF t0 # <<>> THEN s0
              ELSE IF Len(s) > 1 THEN JoinSP(Tail(s)) ELSE <<>>
        sep == << <<SP, 1>>, <<EMDASH, 1>>, <<SP, 1>> >>
        detail == Strip(IF s1 # <<>> THEN Cat(t1, Cat(sep, s1)) ELSE t1)
    IN Slice(detail, CAPTION_LIMIT)

----------------------------------------------------------------------------
(* Media.  A URL is the record of what the patterns read in it: http     *)
(* (it starts with "http"), ext (its file extension, "" for none) and    *)
(* cdn (it matches TELEGRAM_CDN_RE).                                     *)

IMG_EXT == {"jpg", "jpeg", "png", "webp", "gif"}
VIDEO_EXT == {"mp4", "mov", "webm"}

is_image_url(u) == u.http /\ (u.ext \in IMG_EXT \/ u.cdn)

is_video_url(u) == u.http /\ (u.ext \in VIDEO_EXT \/ u.cdn)

\* What a download can give: NoMedia for None (an HTTP error, an exception, a type
\* that is neither image nor video, too many bytes, no bytes) or an asset
\* whose kind the response decides; one asset of each kind stands for all.
NoMedia == [name |-> "", kind |-> "none"]

download_binary(u) ==
    { NoMedia,
      [name |-> "media.jpg", kind |-> "image"],
      [name |-> "media.mp4", kind |-> "video"] }

RECURSIVE prepare_media(_)
prepare_media(urls) ==
    IF urls = <<>> THEN { NoMedia }
    ELSE IF ~(is_image_url(Head(urls)) \/ is_video_url(Head(urls)))
         THEN prepare_media(Tail(urls))
         ELSE UNION { IF got # NoMedia THEN { got } ELSE prepare_media(Tail(urls))
                      : got \in download_binary(Head(urls)) }

----------------------------------------------------------------------------
(* send_item *)

\* A seeded fault: when the upload fails the item is given up, without the
\* text fallback.
send_item_no_fallback(cache, t, chat, item) ==
    LET caption == build_caption(item.title, item.summary)
        medias == { IF v # NoMedia THEN v ELSE p
                    : v \in prepare_media(item.video_urls),
                      p \in prepare_media(item.photo_urls) }
    IN UNION {
        IF media # NoMedia
        THEN { [ok |-> u.ok, cache |-> cache, log |-> u.log,
                caption |-> caption, media |-> media]
               : u \in tg_send_media_upload(chat, media, caption) }
        ELSE { [ok |-> m.ok, cache |-> m.cache, log |-> m.log,
                caption |-> caption, media |-> media]
               : m \in tg_send_message(cache, t, chat, caption) }
        : media \in medias }

\* The runs of send_item; caption and media are its locals.
send_item(cache, t, chat, item) ==
    LET caption == build_caption(item.title, item.summary)
        medias == { IF v # NoMedia THEN v ELSE p
                    : v \in prepare_media(item.video_urls),
                      p \in prepare_media(item.photo_urls) }
    IN UNION {
        IF media # NoMedia
        THEN UNION {
                IF u.ok
                THEN { [ok |-> TRUE, cache |-> cache, log |-> u.log,
                        caption |-> caption, media |-> media] }
                ELSE { [ok |-> m.ok, cache |-> m.cache, log |-> u.log \o m.log,
                        caption |-> caption, media |-> media]
                       : m \in tg_send_message(cache, t, chat, caption) }
                : u \in tg_send_media_upload(chat, media, caption) }
        ELSE { [ok |-> m.ok, cache |-> m.cache, log |-> m.log,
                caption |-> caption, media |-> media]
               : m \in tg_send_message(cache, t, chat, caption) }
        : media \in medias }

----------------------------------------------------------------------------
(* The process: clock, reachability cache, and the call in progress *)

NoCall ==
    [fn |-> "none", chat |-> <<>>, t |-> 0, cached |-> None, queried |-> None,
     text |-> <<>>,
     ok |-> FALSE, log |-> <<>>, caption |-> <<>>, media |-> NoMedia]

\* The state of a process that has just started, with no text under split.
BotStart ==
    /\ now = 0
    /\ CHAT_CHECK_CACHE = [c \in ChatIds |-> None]
    /\ call = NoCall
    /\ lastQuery = [c \in ChatIds |-> None]

NoSplit ==
    /\ text = <<>>
    /\ limit = TG_TEXT_LIMIT
    /\ parts = <<>>

\* No run of process_district yet, and an empty table (db_init).
NoRun ==
    /\ db = {}
    /\ pc = "idle"
    /\ district = "Presnenskiy"
    /\ raw = <<>>
    /\ page = <<>>
    /\ filtered = <<>>
    /\ idx = 1
    /\ sent = 0
    /\ dispatched = <<>>
    /\ replay = FALSE
    /\ delivered = {}
    /\ runs = 0

\* fetch_tg_channel_posts_no_login is not running
NoFetch == [pc |-> "idle", handles |-> <<>>, since |-> 0, h |-> 1, m |-> 1,
            fresh |-> 0, out |-> <<>>, log |-> <<>>]

\* a function that is not running
Idle == [pc |-> "idle"]

FetchIdle == fetching = NoFetch
AdIdle == classifying = Idle
KeyIdle == keying = Idle
StoreIdle == storing = Idle
MediaIdle == preparing = Idle /\ downloading = Idle

SanitizeIdle == sanitizing = Idle
RetryIdle == retrying = Idle
LocalIdle == locating = Idle
MainIdle == walking = Idle

NoFn ==
    /\ FetchIdle /\ AdIdle /\ KeyIdle /\ StoreIdle /\ MediaIdle
    /\ SanitizeIdle /\ RetryIdle /\ LocalIdle /\ MainIdle

Select(log, apis) == SelectSeq(log, LAMBDA e : e.api \in apis)

\* lastQuery after a call made at time t with the given log
Queried(log, t) ==
    [c \in ChatIds |->
        LET gets == SelectSeq(log, LAMBDA e : e.api = "getChat" /\ e.chat = c)
        IN IF gets = <<>> THEN lastQuery[c] ELSE <<t, gets[Len(gets)].res>>]

\* The clock advances.
Tick ==
    /\ now + TickStep <= MaxTime
    /\ now' = now + TickStep
    /\ UNCHANGED <<CHAT_CHECK_CACHE, call, lastQuery>>
    /\ UNCHANGED chunkVars
    /\ UNCHANGED fnVars
    /\ UNCHANGED runVars

\* The call in progress returns to its caller.
Return ==
    /\ call.fn # "none"
    /\ call' = NoCall
    /\ UNCHANGED <<now, CHAT_CHECK_CACHE, lastQuery>>
    /\ UNCHANGED chunkVars
    /\ UNCHANGED fnVars
    /\ UNCHANGED runVars

----------------------------------------------------------------------------
(* tg_send_message applied to texts of one or more chunks *)

SendLines == { << <<"a", 3>> >>, << <<"b", TG_TEXT_LIMIT>> >> }

SendTexts ==
    { JoinNL(ls) : ls \in UNION { [1..n -> SendLines] : n \in 1..MaxSendLines } }

TgSendMessage ==
    /\ call.fn = "none"
    /\ CHAT_CHECK_CACHE = [c \in ChatIds |-> None]
    /\ \E chat \in { CHATS[d] : d \in Districts }, plain_text \in SendTexts :
         \E run \in tg_send_message(CHAT_CHECK_CACHE, now, chat, plain_text) :
            /\ call' = [fn |-> "tg_send_message", chat |-> normalize_chat_id(chat),
                        t |-> now, cached |-> CHAT_CHECK_CACHE[normalize_chat_id(chat)],
                        queried |-> lastQuery[normalize_chat_id(chat)],
                        text |-> plain_text, ok |-> run.ok, log |-> run.log,
                        caption |-> <<>>, media |-> NoMedia]
            /\ CHAT_CHECK_CACHE' = run.cache
            /\ lastQuery' = Queried(run.log, now)
    /\ UNCHANGED now
    /\ UNCHANGED chunkVars
    /\ UNCHANGED fnVars
    /\ UNCHANGED runVars

InitSend == NoSplit /\ BotStart /\ NoRun /\ NoFn

NextSend == TgSendMessage \/ Return

SpecSend == InitSend /\ [][NextSend]_vars

----------------------------------------------------------------------------
(* send_item applied to items, one call after the other *)

Url(ext, cdn) == [http |-> TRUE, ext |-> ext, cdn |-> cdn]

\* An item as the fetcher builds it; ad is what looks_like_ad gives on its
\* text, local the districts whose toponyms mentions_local finds in it.
Item(title, summary, source, published, photos, videos) ==
    [title |-> title, summary |-> summary, source |-> source,
     published |-> published, photo_urls |-> photos, video_urls |-> videos,
     ad |-> FALSE, local |-> Districts]

DispatchItems ==
    { Item(<< <<"a", 10>> >>, <<>>, "@medvedkovo_news", 0, <<>>, <<>>),
      Item(<< <<"b", 2>>, <<DOT, 1>> >>, << <<"a", 5>>, <<SP, 2>>, <<"b", 1>> >>,
           "@medvedkovo_news", 0, << Url("jpg", FALSE) >>, <<>>),
      Item(<< <<"a", 2000>> >>, <<>>, "@aerosokol", 0,
           <<>>, << Url("", FALSE), Url("mp4", FALSE) >>),
      Item(<<>>, << <<"b", 10>>, <<DOT, 1>>, <<SP, 1>>, <<"a", 5000>> >>,
           "@aerosokol", 0, <<>>, <<>>) }

SendItem ==
    /\ call.fn = "none"
    /\ \E chat \in ChatIds, item \in DispatchItems :
         \E run \in send_item(CHAT_CHECK_CACHE, now, chat, item) :
            /\ call' = [fn |-> "send_item", chat |-> chat,
                        t |-> now, cached |-> CHAT_CHECK_CACHE[chat],
                        queried |-> lastQuery[chat],
                        text |-> <<>>, ok |-> run.ok, log |-> run.log,
                        caption |-> run.caption, media |-> run.media]
            /\ CHAT_CHECK_CACHE' = run.cache
            /\ lastQuery' = Queried(run.log, now)
    /\ UNCHANGED now
    /\ UNCHANGED chunkVars
    /\ UNCHANGED fnVars
    /\ UNCHANGED runVars

InitDispatch == NoSplit /\ BotStart /\ NoRun /\ NoFn

NextDispatch == SendItem \/ Return \/ Tick

SpecDispatch == InitDispatch /\ [][NextDispatch]_vars

----------------------------------------------------------------------------
(* The texts and limits _split_chunks is applied to *)

Letters == {"a", "b"}
RunLens == {1, 2, 3, TG_TEXT_LIMIT, TG_TEXT_LIMIT + 1}
NLRunLens == {1, 2}
Limits == (1..MaxLimit) \cup {TG_TEXT_LIMIT}

\* runs of letters of every drawn length, and one or two newlines
Runs == (Letters \X RunLens) \cup ({NL} \X NLRunLens)

Canonical(s) == \A i \in 1..(Len(s) - 1) : s[i][1] # s[i + 1][1]

Texts ==
    UNION { { s \in [1..n -> Runs] : Canonical(s) } : n \in 0..MaxRuns }

InitChunks ==
    /\ text \in Texts
    /\ limit \in Limits
    /\ parts = <<>>
    /\ BotStart
    /\ NoRun
    /\ NoFn

SplitChunks ==
    /\ parts = <<>>
    /\ parts' = _split_chunks(text, limit)
    /\ UNCHANGED <<text, limit>>
    /\ UNCHANGED botVars
    /\ UNCHANGED runVars
    /\ UNCHANGED fnVars

NextChunks == SplitChunks

SpecChunks == InitChunks /\ [][NextChunks]_vars

----------------------------------------------------------------------------
(* Claims on _split_chunks *)

\* C9: for any text and any limit >= 1, no chunk returned by
\* _split_chunks(text, limit) is longer than limit characters, also when a
\* single line of the text is longer than the limit.
C9_NoChunkExceedsLimit ==
    \A i \in 1..Len(parts) : StrLen(parts[i]) <= limit

\* C10: joining the chunks returned by _split_chunks(text, limit) with the
\* newline character gives back the text exactly.
C10_ChunkRoundTrip ==
    parts # <<>> => JoinNL(parts) = text

\* _split_chunks has cut a text with an empty line into several chunks.
C10_Witness ==
    /\ Len(parts) >= 2
    /\ \E i \in 1..Len(text) : text[i] = <<NL, 2>>
    /\ \E i \in 1..Len(parts) : parts[i] = <<>>

----------------------------------------------------------------------------
(* Claims on send_item, tg_check_chat and tg_send_message *)

SendApis == {"sendPhoto", "sendVideo", "sendMessage"}

\* C5: in send_item, whenever no media asset resolves, or the media upload
\* returns False, tg_send_message is called with the caption that was built
\* for the media send; send_item returns True iff the media upload or the
\* text send succeeded.
C5_TextFallback ==
    call.fn = "send_item" =>
        LET up == Select(call.log, {"tg_send_media_upload"})
            msg == Select(call.log, {"tg_send_message"})
            uploaded == up # <<>> /\ up[1].res = "True"
            texted == msg # <<>> /\ msg[1].res = "True"
        IN /\ (call.media = NoMedia <=> up = <<>>)
           /\ \A k \in 1..Len(up) : up[k].text = call.caption
           /\ ~uploaded =>
                /\ Len(msg) = 1
                /\ msg[1].text = call.caption
                /\ msg[1].chat = call.chat
           /\ call.ok <=> (uploaded \/ texted)

\* send_item has fallen back to the text after a failed upload, and the
\* text went through.
C5_Witness ==
    /\ call.fn = "send_item"
    /\ call.media # NoMedia
    /\ \E k \in 1..Len(call.log) :
         call.log[k].api = "tg_send_media_upload" /\ call.log[k].res = "False"
    /\ \E k \in 1..Len(call.log) :
         call.log[k].api = "tg_send_message" /\ call.log[k].res = "True"
    /\ call.ok

\* C6: no sendPhoto, sendVideo or sendMessage request is issued to a target
\* unless tg_check_chat has been evaluated for that target before it, in
\* this call or earlier in the process, and its latest result is not False.
C6_CheckBeforeSend ==
    \A j \in 1..Len(call.log) :
        call.log[j].api \in SendApis =>
            LET prior == { i \in 1..(j - 1) :
                             /\ call.log[i].api = "tg_check_chat"
                             /\ call.log[i].chat = call.log[j].chat }
            IN IF prior # {}
               THEN \A i \in prior : call.log[i].res = "True"
               ELSE call.cached # None /\ call.cached[1]

\* C7: while the cached result of a chat is younger than CHAT_CHECK_TTL,
\* tg_check_chat returns the cached boolean, False as well as True, without
\* a getChat request; a query is made once the entry is at least
\* CHAT_CHECK_TTL old, so two queries for one chat are at least
\* CHAT_CHECK_TTL apart.
C7_ReachabilityCache ==
    call.fn = "send_item" =>
        LET chk == SelectSeq(call.log, LAMBDA e : e.api = "tg_check_chat")
            gets == SelectSeq(call.log, LAMBDA e : e.api = "getChat")
            young == call.cached # None /\ call.t - call.cached[2] < CHAT_CHECK_TTL
        IN /\ chk # <<>> /\ young =>
                gets = <<>> /\ chk[1].res = Bool(call.cached[1])
           /\ chk # <<>> /\ ~young => gets # <<>>
           /\ gets # <<>> /\ call.queried # None =>
                call.t - call.queried[1] >= CHAT_CHECK_TTL

\* A False cached after a transport exception has been returned from the
\* cache, at a later time, without a query.
C7_Witness ==
    /\ call.fn = "send_item"
    /\ call.cached # None
    /\ ~call.cached[1]
    /\ call.queried # None
    /\ call.queried[2] = "raise"
    /\ call.t > call.cached[2]
    /\ call.t - call.cached[2] < CHAT_CHECK_TTL
    /\ \E k \in 1..Len(call.log) : call.log[k].api = "tg_check_chat"
    /\ \A k \in 1..Len(call.log) : call.log[k].api # "getChat"

\* C8: tg_send_message sends the chunks in index order, each with a bounded
\* number of attempts, and returns True exactly when every chunk got a
\* successful response.
C8_ChunkedSend ==
    call.fn = "tg_send_message" =>
        LET chunks == _split_chunks(call.text, TG_TEXT_LIMIT)
            sends == SelectSeq(call.log, LAMBDA e : e.api = "sendMessage")
            Succeeded(ci) ==
                \E k \in 1..Len(sends) : sends[k].chunk = ci /\ sends[k].res = "ok"
        IN /\ \A k \in 1..Len(sends) :
                /\ sends[k].chunk \in 1..Len(chunks)
                /\ sends[k].text = chunks[sends[k].chunk]
           /\ \A k \in 1..(Len(sends) - 1) : sends[k].chunk <= sends[k + 1].chunk
           /\ \A ci \in 1..Len(chunks) :
                Cardinality({ k \in 1..Len(sends) : sends[k].chunk = ci })
                    <= SEND_ATTEMPTS * POST_RETRIES
           /\ call.ok <=> \A ci \in 1..Len(chunks) : Succeeded(ci)

\* The first chunk of a text has failed all its attempts, a later chunk
\* went through, and tg_send_message returned False.
C8_Witness ==
    /\ call.fn = "tg_send_message"
    /\ ~call.ok
    /\ LET sends == SelectSeq(call.log, LAMBDA e : e.api = "sendMessage")
       IN /\ Cardinality({ k \in 1..Len(sends) : sends[k].chunk = 1 })
                = SEND_ATTEMPTS * POST_RETRIES
          /\ \A k \in 1..Len(sends) : sends[k].chunk = 1 => sends[k].res # "ok"
          /\ \E k \in 1..Len(sends) : sends[k].chunk = 2 /\ sends[k].res = "ok"

----------------------------------------------------------------------------
(* The table `sent` *)

already_sent(table, chat, key) ==
    \E row \in table : row[1] = chat /\ row[2] = key

\* A seeded fault: a plain INSERT into a table without the primary key.
mark_sent_inserts(table, chat, key, t) == table \cup { <<chat, key, t>> }

\* INSERT OR REPLACE under PRIMARY KEY(chat, key); t is utcnow()
mark_sent(table, chat, key, t) ==
    { row \in table : ~(row[1] = chat /\ row[2] = key) } \cup { <<chat, key, t>> }

\* The key is the SHA-256 digest of title[:1024] + "||" + summary[:1024] +
\* "||" + source; the digest is taken to be free of collisions and is
\* modelled by the string it is computed from.  The source handle is one
\* symbol of that string.
KEY_FIELD_LIMIT == 1024

\* A seeded fault: the source is left out of the key.
_make_dedup_key_without_source(title, summary, source) ==
    LET bars == << <<"|", 2>> >>
    IN Cat(Cat(Cat(Slice(title, KEY_FIELD_LIMIT), bars),
               Slice(summary, KEY_FIELD_LIMIT)), bars)

_make_dedup_key(title, summary, source) ==
    LET bars == << <<"|", 2>> >>
    IN Cat(Cat(Cat(Cat(Slice(title, KEY_FIELD_LIMIT), bars),
                   Slice(summary, KEY_FIELD_LIMIT)), bars),
           << <<source, 1>> >>)

KeyOf(it) == _make_dedup_key(it.title, it.summary, it.source)

----------------------------------------------------------------------------
(* process_district *)

FRESH_HOURS == 48
MAX_POSTS_PER_CHAT == 5

FreshSeconds == FRESH_HOURS * 3600

\* A seeded fault: every post counts as recent.
looks_recent_always(published, t) == TRUE

\* t is utcnow(); every published timestamp of the model is set
looks_recent(published, t) == t - published <= FreshSeconds

\* Each district has channels of its own and the city-wide channels.
SOURCES ==
    [d \in Districts |->
        IF d = "Presnenskiy" THEN <<"@Presnenskii", "@infomoscow24", "@msk1_news">>
        ELSE <<"@akademicheskiy_news24", "@infomoscow24", "@msk1_news">>]

\* A seeded fault: advertisements pass the filter.
FilterKeepsAds(rawItems, d, t) ==
    SelectSeq([k \in 1..Len(rawItems) |-> [item |-> rawItems[k], pos |-> k]],
              LAMBDA e : /\ looks_recent(e.item.published, t)
                         /\ d \in e.item.local)

\* The filter loop of process_district at time t: the items kept, each with
\* its place in raw.
Filter(rawItems, d, t) ==
    SelectSeq([k \in 1..Len(rawItems) |-> [item |-> rawItems[k], pos |-> k]],
              LAMBDA e : /\ looks_recent(e.item.published, t)
                         /\ ~e.item.ad
                         /\ d \in e.item.local)

\* A seeded fault: the list is left in fetch order.
SortByPublishedUnsorted(entries) == entries

\* filtered.sort(key=published, reverse=True): a stable sort, so entries
\* with equal timestamps keep their order.
RECURSIVE InsertByPublished(_, _)
InsertByPublished(sorted, e) ==
    IF sorted = <<>> THEN <<e>>
    ELSE IF Head(sorted).item.published >= e.item.published
         THEN <<Head(sorted)>> \o InsertByPublished(Tail(sorted), e)
         ELSE <<e>> \o sorted

RECURSIVE SortFrom(_, _)
SortFrom(sorted, entries) ==
    IF entries = <<>> THEN sorted
    ELSE SortFrom(InsertByPublished(sorted, Head(entries)), Tail(entries))

SortByPublished(entries) == SortFrom(<<>>, entries)

\* A seeded fault: the slice is missing.
CappedNoSlice(entries) == entries

\* filtered[:MAX_POSTS_PER_CHAT]
Capped(entries) == SubSeq(entries, 1, IF Len(entries) < MAX_POSTS_PER_CHAT
                                      THEN Len(entries) ELSE MAX_POSTS_PER_CHAT)

\* A seeded fault: the item is recorded whatever send_item returned.
RecordedAlways(table, chat, key, ok, t) == mark_sent(table, chat, key, t)

\* The table after send_item has returned ok for the item with this key.
Recorded(table, chat, key, ok, t) ==
    IF ok THEN mark_sent(table, chat, key, t) ELSE table

\* A seeded fault: the table is not consulted.
SeenNever(table, chat, key) == FALSE

\* The test that skips an item of the loop.
Seen(table, chat, key) == already_sent(table, chat, key)

----------------------------------------------------------------------------
(* Timestamps *)

\* What a page says of the time of a post: nothing ("none"), something
\* dateutil cannot parse ("junk"), a date and time without a zone ("naive",
\* wall seconds) or with one ("aware", wall seconds and the offset of the
\* zone from UTC in seconds).
Stamp(kind, wall, offset) == [kind |-> kind, wall |-> wall, offset |-> offset]

NoStamp == Stamp("none", 0, 0)

\* None, or the aware datetime: a value without a zone is given UTC.
extract_datetime(val) ==
    IF val.kind \in {"none", "junk"} THEN NoStamp
    ELSE IF val.kind = "naive" THEN Stamp("aware", val.wall, 0)
    ELSE val

\* The instant of an aware datetime, in seconds of UTC; aware datetimes
\* compare by their instants.
Instant(dt) == dt.wall - dt.offset

----------------------------------------------------------------------------
(* What the fetcher returns *)

Title(c, n) == << <<c, n>> >>

PostA == Item(Title("a", 10), <<>>, "@infomoscow24", -100, <<>>, <<>>)
PostB == Item(Title("b", 10), Title("a", 2), "@Presnenskii", -100,
              << Url("jpg", FALSE) >>, <<>>)
\* the text of PostA, posted earlier
PostC == [PostA EXCEPT !.published = -200]
\* an advertisement
PostD == [Item(Title("b", 3), <<>>, "@msk1_news", -50, <<>>, <<>>) EXCEPT !.ad = TRUE]
\* a post exactly FRESH_HOURS old at time 0
PostE == Item(Title("b", 4), <<>>, "@msk1_news", 0 - FreshSeconds, <<>>, <<>>)
\* a post that names no toponym of Presnenskiy
PostF == [Item(Title("b", 5), <<>>, "@infomoscow24", -300, <<>>, <<>>)
             EXCEPT !.local = {"Akademicheskiy"}]

\* a post 49 hours old at time 0
PostG == Item(Title("b", 6), <<>>, "@msk1_news", 0 - 49 * 3600, <<>>, <<>>)

\* The post as its page shows it: the time of the item in a zone of this
\* offset, with or without the zone written.
Shown(it, kind, offset) ==
    [it EXCEPT !.published = Stamp(kind, it.published + offset, offset)]

Pool == {Shown(PostA, "aware", 0), Shown(PostB, "aware", 0), Shown(PostC, "naive", 0)}

\* a page of which some posts do not pass the cutoff or the filter
FilterBatch ==
    << Shown(PostB, "aware", 0), Shown(PostF, "aware", 0), Shown(PostC, "naive", 0),
       Shown(PostA, "aware", 0), Shown(PostA, "junk", 0), Shown(PostD, "aware", 0),
       Shown(PostE, "aware", 10800), Shown(PostG, "naive", 0) >>

\* a page that opens with posts that do not pass the filter
RejectsFirst ==
    << Shown([PostD EXCEPT !.source = "@Presnenskii"], "aware", 0),
       Shown([PostE EXCEPT !.source = "@Presnenskii"], "aware", 10800),
       Shown(PostB, "aware", 0), Shown(PostF, "aware", 0), Shown(PostA, "aware", 0) >>

\* n distinct posts, the oldest first
LongBatch(n) ==
    [k \in 1..n |->
        Shown(Item(Title("a", k), <<>>, "@akademicheskiy_news24", 10 * k - 1000, <<>>, <<>>),
              "aware", 0)]

Batches ==
    UNION { [1..n -> Pool] : n \in 0..MaxMixed }
    \cup { FilterBatch, RejectsFirst, LongBatch(MaxBatch) }

\* The batches that hold the posts of the pages of these handles, handle
\* by handle in the order of the list.
Pages(handles) ==
    LET Place(h) == CHOOSE i \in 1..Len(handles) : handles[i] = h
    IN { b \in Batches :
           /\ \A k \in 1..Len(b) : \E i \in 1..Len(handles) : handles[i] = b[k].source
           /\ \A j, k \in 1..Len(b) :
                 j < k => Place(b[j].source) <= Place(b[k].source) }

\* The items of the posts shown that have a time and are not older than
\* the cutoff `since`; the time of an item is the instant of its aware
\* datetime.
Cut(shown, since) ==
    LET parsed == [k \in 1..Len(shown) |->
                      [shown[k] EXCEPT !.published = extract_datetime(@)]]
        kept == SelectSeq(parsed, LAMBDA p : /\ p.published # NoStamp
                                             /\ Instant(p.published) >= since)
    IN [k \in 1..Len(kept) |-> [kept[k] EXCEPT !.published = Instant(@)]]

fetch_tg_channel_posts_no_login(handles, t) ==
    LET since == t - FreshSeconds
    IN { Cut(shown, since) : shown \in Pages(handles) }

----------------------------------------------------------------------------
(* The runs of process_district *)

\* A process is one call of main.  The model follows, in each process, the
\* call of process_district for one district; the calls for the other
\* districts are those in which the fetcher returns nothing, and they
\* change nothing.

chat_norm == normalize_chat_id(CHATS[district])

\* raw = fetch_tg_channel_posts_no_login(sources)
Fetch ==
    /\ call.fn = "none"
    /\ runs < MaxRunCount
    /\ \E d \in Districts :
         /\ pc = "idle"
         /\ \E shown \in Pages(SOURCES[d]) :
            LET batch == Cut(shown, now - FreshSeconds)
            IN
            /\ batch \in fetch_tg_channel_posts_no_login(SOURCES[d], now)
            /\ district' = d
            /\ page' = shown
            /\ raw' = batch
            /\ replay' = \A k \in 1..Len(batch) :
                            already_sent(db, normalize_chat_id(CHATS[d]), KeyOf(batch[k]))
    /\ pc' = "fetched"
    /\ runs' = runs + 1
    /\ filtered' = <<>>
    /\ idx' = 1
    /\ sent' = 0
    /\ dispatched' = <<>>
    /\ UNCHANGED <<db, delivered>>
    /\ UNCHANGED botVars
    /\ UNCHANGED chunkVars
    /\ UNCHANGED fnVars

\* the filter loop and filtered.sort(...)
FilterAndSort ==
    /\ pc = "fetched"
    /\ filtered' = SortByPublished(Filter(raw, district, now))
    /\ pc' = "loop"
    /\ UNCHANGED <<db, district, raw, page, idx, sent, dispatched, replay, delivered, runs>>
    /\ UNCHANGED botVars
    /\ UNCHANGED chunkVars
    /\ UNCHANGED fnVars

\* one turn of `for it in filtered[:MAX_POSTS_PER_CHAT]` on an item that
\* is already_sent
SkipItem ==
    /\ pc = "loop"
    /\ idx <= Len(Capped(filtered))
    /\ Seen(db, chat_norm, KeyOf(filtered[idx].item))
    /\ idx' = idx + 1
    /\ UNCHANGED <<db, pc, district, raw, page, filtered, sent, dispatched, replay,
                   delivered, runs>>
    /\ UNCHANGED botVars
    /\ UNCHANGED chunkVars
    /\ UNCHANGED fnVars

\* one turn of the loop on an item that is not already_sent: send_item,
\* and mark_sent when it returned True
DispatchItem ==
    /\ pc = "loop"
    /\ idx <= Len(Capped(filtered))
    /\ LET e == filtered[idx]
           key == KeyOf(e.item)
       IN /\ ~Seen(db, chat_norm, key)
          /\ \E out \in { [ok |-> run.ok, cache |-> run.cache,
                           queried |-> Queried(run.log, now)]
                          : run \in send_item(CHAT_CHECK_CACHE, now, chat_norm, e.item) } :
                /\ CHAT_CHECK_CACHE' = out.cache
                /\ lastQuery' = out.queried
                /\ db' = Recorded(db, chat_norm, key, out.ok, now)
                /\ sent' = IF out.ok THEN sent + 1 ELSE sent
                /\ dispatched' = Append(dispatched,
                                        [item |-> e.item, pos |-> e.pos, ok |-> out.ok])
                /\ delivered' = IF out.ok THEN delivered \cup { <<chat_norm, key>> }
                                ELSE delivered
    /\ idx' = idx + 1
    /\ UNCHANGED <<pc, district, raw, page, filtered, replay, runs>>
    /\ UNCHANGED <<now, call>>
    /\ UNCHANGED chunkVars
    /\ UNCHANGED fnVars

\* the loop is over: process_district returns
Finish ==
    /\ pc = "loop"
    /\ idx > Len(Capped(filtered))
    /\ pc' = "done"
    /\ UNCHANGED <<db, district, raw, page, filtered, idx, sent, dispatched, replay,
                   delivered, runs>>
    /\ UNCHANGED botVars
    /\ UNCHANGED chunkVars
    /\ UNCHANGED fnVars

\* main returns and the process ends; the next process starts with the
\* table as it is and an empty module level cache.
Restart ==
    /\ pc = "done"
    /\ pc' = "idle"
    /\ CHAT_CHECK_CACHE' = [c \in ChatIds |-> None]
    /\ lastQuery' = [c \in ChatIds |-> None]
    /\ UNCHANGED <<now, call>>
    /\ UNCHANGED <<db, district, raw, page, filtered, idx, sent, dispatched, replay,
                   delivered, runs>>
    /\ UNCHANGED chunkVars
    /\ UNCHANGED fnVars

\* The clock advances while the pages are downloaded.
Wait ==
    /\ pc = "fetched"
    /\ now < MaxWait
    /\ Tick

Init == NoSplit /\ BotStart /\ NoRun /\ NoFn

Next ==
    \/ Fetch
    \/ FilterAndSort
    \/ SkipItem
    \/ DispatchItem
    \/ Finish
    \/ Restart
    \/ Wait

Spec == Init /\ [][Next]_vars

----------------------------------------------------------------------------
(* Claims on process_district *)

Failed(k) == ~dispatched[k].ok

DispatchedKey(k) == KeyOf(dispatched[k].item)

BetweenRuns == pc \in {"done", "idle"}

\* C1, as stated: each record of the table is of a (target, key) whose
\* dispatch reported success, and a post whose dispatch failed in a run is
\* not already_sent when the run is over and the next one starts.
C1_FailedStaysUnseen ==
    /\ \A row \in db : <<row[1], row[2]>> \in delivered
    /\ BetweenRuns =>
         \A k \in 1..Len(dispatched) :
            Failed(k) => ~already_sent(db, chat_norm, DispatchedKey(k))

\* C1: each record of the table is of a (target, key) whose dispatch
\* reported success; a failed dispatch writes nothing; and a post whose
\* dispatch failed in a run is not already_sent when the next run starts,
\* unless the dispatch of a post with the same content key to the same
\* target succeeded in that run.
C1_RecordOnlyOnSuccess ==
    /\ \A row \in db : <<row[1], row[2]>> \in delivered
    /\ \A k \in 1..Len(dispatched) :
          /\ Failed(k)
          /\ \A j \in 1..Len(dispatched) :
                DispatchedKey(j) = DispatchedKey(k) => Failed(j)
          => ~already_sent(db, chat_norm, DispatchedKey(k))

\* A run is over in which one dispatch failed and left no record and
\* another succeeded and left one.
C1_Witness ==
    /\ pc = "done"
    /\ \E k \in 1..Len(dispatched) :
          /\ Failed(k)
          /\ ~already_sent(db, chat_norm, DispatchedKey(k))
    /\ \E j \in 1..Len(dispatched) :
          /\ ~Failed(j)
          /\ already_sent(db, chat_norm, DispatchedKey(j))

\* C2: a run on a batch of which the table holds every item's key for the
\* target calls send_item zero times, whatever the time of the run.
C2_IdempotentReplay == replay => dispatched = <<>>

\* A replay is over, at a later time than the records were written, of a
\* batch with items that pass the filter.
C2_Witness ==
    /\ replay
    /\ pc = "done"
    /\ filtered # <<>>
    /\ \A row \in db : row[3] < now

\* C3: one run calls send_item at most MAX_POSTS_PER_CHAT times.
C3_AtMostMaxPosts == Len(dispatched) <= MAX_POSTS_PER_CHAT

\* A run is over in which more posts passed the filter than the cap allows,
\* and the cap was reached with dispatches of both outcomes.
C3_Witness ==
    /\ pc = "done"
    /\ Len(filtered) > MAX_POSTS_PER_CHAT
    /\ Len(dispatched) = MAX_POSTS_PER_CHAT
    /\ \E k \in 1..Len(dispatched) : Failed(k)
    /\ \E k \in 1..Len(dispatched) : ~Failed(k)

\* C4: the posts of one run are passed to send_item in descending order of
\* published, and posts with equal timestamps in their fetch order.
C4_DescendingOrder ==
    \A j, k \in 1..Len(dispatched) :
        j < k =>
          /\ dispatched[j].item.published >= dispatched[k].item.published
          /\ dispatched[j].item.published = dispatched[k].item.published
                => dispatched[j].pos < dispatched[k].pos

\* In one run a post was dispatched before one fetched earlier, and two
\* posts with equal timestamps were dispatched.
C4_Witness ==
    /\ \E j, k \in 1..Len(dispatched) :
          /\ j < k
          /\ dispatched[j].item.published > dispatched[k].item.published
          /\ dispatched[j].pos > dispatched[k].pos
    /\ \E j, k \in 1..Len(dispatched) :
          /\ j < k
          /\ dispatched[j].item.published = dispatched[k].item.published

----------------------------------------------------------------------------
(* fetch_tg_channel_posts_no_login, mirror by mirror *)

\* A handle of a SOURCES list is <<ats, name>>: `ats` leading "@" and then
\* the name, so that handle.strip().lstrip("@") is the name.
HandleName(handle) == handle[2]

\* "@" + h
SourceOf(h) == <<1, h>>

\* The mirrors of a handle, in the order they are tried.
_tg_urls(handle) ==
    << [via |-> "t.me", scheme |-> "https", h |-> HandleName(handle)],
       [via |-> "r.jina.ai", scheme |-> "https", h |-> HandleName(handle)],
       [via |-> "r.jina.ai", scheme |-> "http", h |-> HandleName(handle)] >>

\* A message node of a page: its <time> value, its text, its photo and
\* video links, and whether its text is a short "pinned" service line.
Node(val, txt, photos, videos, pinned) ==
    [datetime |-> val, text |-> txt, photos |-> photos, videos |-> videos,
     pinned |-> pinned]

RECURSIVE ExtractFrom(_, _)
ExtractFrom(nodes, items) ==
    IF nodes = <<>> THEN items
    ELSE LET msg == Head(nodes)
             dt == extract_datetime(msg.datetime)
             txt == sanitize(msg.text)
         IN IF msg.pinned THEN ExtractFrom(Tail(nodes), items)
            ELSE IF dt # NoStamp /\ (txt # <<>> \/ msg.photos # <<>> \/ msg.videos # <<>>)
            THEN ExtractFrom(Tail(nodes),
                     Append(items, [published |-> dt, text |-> txt,
                                    photo_urls |-> msg.photos,
                                    video_urls |-> msg.videos]))
            ELSE ExtractFrom(Tail(nodes), items)

_extract_posts_from_html(nodes) == ExtractFrom(nodes, <<>>)

TITLE_FALLBACK == 120

\* The item appended for a post p of the page of h.
Fetched(p, h) ==
    LET sents == sentences(p.text)
    IN [title |-> IF sents # <<>> THEN sents[1] ELSE Slice(p.text, TITLE_FALLBACK),
        summary |-> IF Len(sents) > 1 THEN JoinSP(Tail(sents)) ELSE <<>>,
        link |-> <<>>,
        published |-> Instant(p.published),
        source |-> SourceOf(h),
        raw |-> p.text,
        photo_urls |-> p.photo_urls,
        video_urls |-> p.video_urls]

\* The posts of a page that are appended: p["published"] >= since
FreshOf(posts, since) ==
    SelectSeq(posts, LAMBDA p : Instant(p.published) >= since)

\* A seeded fault: the next mirror is tried although this one gave fresh
\* posts.
StopsNever(fresh) == FALSE

\* if fresh > 0: break
Stops(fresh) == fresh > 0

MIRRORS == 3

\* A seeded fault: an exception of the request leaves the function.
CaughtParseOnly(got) == got # "raise"

\* `except Exception: continue` around the request, the status test, the
\* extraction and the appends
Caught(got) == TRUE

\* What the body of a response with status 200 is: empty, markup on which
\* the extraction raises, or a page of message nodes.
Body(kind, nodes) == [kind |-> kind, nodes |-> nodes]

OldStamp == Stamp("aware", 0 - FreshSeconds - 3600, 0)
\* 47 hours old on the wall of a zone three hours ahead, so 50 hours old
ZoneStamp == Stamp("aware", 3600 - FreshSeconds, 10800)
EdgeStamp == Stamp("naive", 0 - FreshSeconds, 0)
NewStamp == Stamp("aware", -100, 0)

TwoSentences == << <<"a", 2>>, <<DOT, 1>>, <<SP, 1>>, <<"b", 1>> >>

FreshNode == Node(NewStamp, TwoSentences, <<>>, <<>>, FALSE)
EdgeNode == Node(EdgeStamp, << <<"b", 3>> >>, <<>>, <<>>, FALSE)
OldNode == Node(OldStamp, << <<"a", 5>> >>, <<>>, <<>>, FALSE)
ZoneNode == Node(ZoneStamp, << <<"a", 4>> >>, <<>>, <<>>, FALSE)
JunkNode == Node(Stamp("junk", 0, 0), << <<"a", 6>> >>, <<>>, <<>>, FALSE)
PinnedNode == Node(NewStamp, << <<"b", 6>> >>, <<>>, <<>>, TRUE)
PhotoNode == Node(NewStamp, <<>>, << Url("jpg", FALSE) >>, <<>>, FALSE)
BareNode == Node(NewStamp, <<>>, <<>>, <<>>, FALSE)

Bodies ==
    { Body("empty", <<>>), Body("broken", <<>>), Body("html", <<>>),
      Body("html", <<OldNode, ZoneNode>>),
      Body("html", <<OldNode, FreshNode, EdgeNode>>),
      Body("html", <<JunkNode, PinnedNode, BareNode, PhotoNode>>) }

FetchHandles == { <<1, "infomoscow24">>, <<0, "s29641">>, <<1, "">> }

HandleLists == UNION { [1..n -> FetchHandles] : n \in 0..MaxHandles }

\* fetch_tg_channel_posts_no_login(handles) is called at time `now`
InitFetch ==
    /\ NoSplit /\ BotStart /\ NoRun
    /\ SanitizeIdle /\ RetryIdle /\ LocalIdle /\ MainIdle
    /\ AdIdle /\ KeyIdle /\ StoreIdle /\ MediaIdle
    /\ \E hs \in HandleLists :
          fetching = [NoFetch EXCEPT !.pc = "handles", !.handles = hs,
                                     !.since = now - FreshSeconds]

\* `if not h: continue`
SkipHandle ==
    /\ fetching.pc = "handles"
    /\ fetching.h <= Len(fetching.handles)
    /\ HandleName(fetching.handles[fetching.h]) = ""
    /\ fetching' = [fetching EXCEPT !.h = @ + 1]
    /\ UNCHANGED <<chunkVars, botVars, runVars, besidesFetching>>

\* The state after one turn of `for url in _tg_urls(h)` that got `got`
\* and appended `new`: the next mirror, or the next handle after a break
\* or after the last mirror.  (The local `total` is only logged.)
AfterMirror(f, got, new) ==
    LET entry == [h |-> f.h, m |-> f.m, url |-> _tg_urls(f.handles[f.h])[f.m],
                  got |-> got, new |-> Len(new)]
        fresh == f.fresh + Len(new)
        over == (got = "page" /\ Stops(fresh)) \/ f.m = MIRRORS
    IN [f EXCEPT !.pc = IF Caught(got) THEN @ ELSE "raised",
                 !.log = Append(@, entry),
                 !.out = @ \o new,
                 !.h = IF over THEN @ + 1 ELSE @,
                 !.m = IF over THEN 1 ELSE @ + 1,
                 !.fresh = IF over THEN 0 ELSE fresh]

\* One turn of `for url in _tg_urls(h)`: the request with its retries, the
\* extraction, the appends, and the break.
TryMirror ==
    /\ fetching.pc = "handles"
    /\ fetching.h <= Len(fetching.handles)
    /\ LET h == HandleName(fetching.handles[fetching.h])
       IN /\ h # ""
          /\ \E run \in _get_with_retries :
               \/ /\ Last(run) = "raise"
                  /\ fetching' = AfterMirror(fetching, "raise", <<>>)
               \/ /\ Last(run) = "bad"
                  /\ fetching' = AfterMirror(fetching, "non200", <<>>)
               \/ /\ Last(run) = "ok"
                  /\ \E body \in Bodies :
                       IF body.kind # "html"
                       THEN fetching' = AfterMirror(fetching, body.kind, <<>>)
                       ELSE LET posts == _extract_posts_from_html(body.nodes)
                                kept == FreshOf(posts, fetching.since)
                                new == [k \in 1..Len(kept) |-> Fetched(kept[k], h)]
                            IN fetching' = AfterMirror(fetching, "page", new)
    /\ UNCHANGED <<chunkVars, botVars, runVars, besidesFetching>>

\* return out
FetchReturn ==
    /\ fetching.pc = "handles"
    /\ fetching.h > Len(fetching.handles)
    /\ fetching' = [fetching EXCEPT !.pc = "returned"]
    /\ UNCHANGED <<chunkVars, botVars, runVars, besidesFetching>>

NextFetch == SkipHandle \/ TryMirror \/ FetchReturn

SpecFetch == InitFetch /\ [][NextFetch]_vars

----------------------------------------------------------------------------
(* Claims on fetch_tg_channel_posts_no_login *)

\* the turns of the mirror loop of the h-th handle
TurnsOf(h) == SelectSeq(fetching.log, LAMBDA e : e.h = h)

\* the items of out that the h-th handle gave
RECURSIVE NewOf(_)
NewOf(turns) == IF turns = <<>> THEN 0 ELSE Head(turns).new + NewOf(Tail(turns))

FailedTurn(e) == e.got \in {"raise", "non200", "empty", "broken"}

\* C11: the mirrors of a handle are tried in the order direct host, https
\* proxy, http proxy; the first mirror whose response gives a post not
\* older than the cutoff is the last one requested for the handle; a mirror
\* without such a post adds nothing, so the posts of one handle come from
\* one response.
C11_MirrorOrder ==
    \A h \in 1..Len(fetching.handles) :
        LET turns == TurnsOf(h)
        IN /\ Len(turns) <= MIRRORS
           /\ \A k \in 1..Len(turns) :
                /\ turns[k].m = k
                /\ turns[k].url = _tg_urls(fetching.handles[h])[k]
                /\ turns[k].url.via = IF k = 1 THEN "t.me" ELSE "r.jina.ai"
                /\ turns[k].url.scheme = IF k = 3 THEN "http" ELSE "https"
                /\ turns[k].new > 0 => k = Len(turns)
           /\ fetching.pc = "returned" /\ HandleName(fetching.handles[h]) # "" =>
                /\ turns # <<>>
                /\ turns[Len(turns)].new > 0 \/ Len(turns) = MIRRORS
           /\ Len(SelectSeq(fetching.out,
                            LAMBDA it : it.source = SourceOf(HandleName(fetching.handles[h]))))
                = NewOf(SelectSeq(fetching.log,
                            LAMBDA e : fetching.handles[e.h] = fetching.handles[h]))

\* The fetcher has returned; for one handle the direct host gave a page
\* without a fresh post and the https proxy gave fresh posts, and the http
\* proxy was not asked.
C11_Witness ==
    /\ fetching.pc = "returned"
    /\ \E h \in 1..Len(fetching.handles) :
          LET turns == TurnsOf(h)
          IN /\ Len(turns) = 2
             /\ turns[1].got = "page" /\ turns[1].new = 0
             /\ turns[2].got = "page" /\ turns[2].new = 2
    /\ Len(fetching.out) = 2

\* C12: a transport failure through all retries, a non-200 or empty
\* response, or a parse exception moves on to the next mirror of the handle;
\* a handle whose mirrors all fail gives no post, the posts collected
\* before are kept, every later handle is processed, and the function does
\* not raise.
C12_FailuresMoveOn ==
    [][ fetching.pc = "handles" /\ fetching' # fetching =>
          /\ fetching'.pc # "raised"
          /\ Len(fetching'.out) >= Len(fetching.out)
          /\ SubSeq(fetching'.out, 1, Len(fetching.out)) = fetching.out
          /\ Len(fetching'.log) > Len(fetching.log)
             /\ FailedTurn(fetching'.log[Len(fetching'.log)]) =>
                /\ fetching'.out = fetching.out
                /\ fetching'.pc = "handles"
                /\ IF fetching.m < MIRRORS
                   THEN fetching'.h = fetching.h /\ fetching'.m = fetching.m + 1
                   ELSE fetching'.h = fetching.h + 1 /\ fetching'.m = 1
          /\ fetching'.pc = "returned" =>
                \A h \in 1..Len(fetching.handles) :
                    HandleName(fetching.handles[h]) # "" => TurnsOf(h) # <<>>
      ]_vars

\* The fetcher has returned the posts of its first handle after every
\* mirror of its second handle failed, each in another way.
C12_Witness ==
    /\ fetching.pc = "returned"
    /\ Len(fetching.handles) = 2
    /\ TurnsOf(1) # <<>>
    /\ NewOf(TurnsOf(1)) > 0
    /\ Len(TurnsOf(2)) = MIRRORS
    /\ { TurnsOf(2)[k].got : k \in 1..MIRRORS } = {"raise", "non200", "broken"}
    /\ Len(fetching.out) = NewOf(TurnsOf(1))

----------------------------------------------------------------------------
(* Claims on what process_district lets through *)

\* The item passes the three tests of the filter loop at time t.
Eligible(it, d, t) ==
    /\ ~it.ad
    /\ d \in it.local
    /\ looks_recent(it.published, t)

\* This step is a call of send_item.
Dispatches == Len(dispatched') = Len(dispatched) + 1

\* C13: an advertisement, a post that is not local for a district with
\* toponyms, or a stale post never reaches the dispatcher, wherever it
\* stands in the batch: every call of send_item is for a fetched item that
\* is legitimate, relevant, fresh and not yet in the table for the chat,
\* and the table changes only by the record of such an item.
C13_OnlyEligibleDispatched ==
    [][ /\ Dispatches =>
            LET d == dispatched'[Len(dispatched')]
            IN /\ d.pos \in 1..Len(raw) /\ raw[d.pos] = d.item
               /\ Eligible(d.item, district, now)
               /\ ~already_sent(db, chat_norm, KeyOf(d.item))
               /\ db' \in {db, mark_sent(db, chat_norm, KeyOf(d.item), now)}
        /\ db' # db => Dispatches ]_vars

\* A run is over in which an advertisement, a post of another district and
\* a stale post stood before an item that was dispatched and recorded, and
\* none of the three was dispatched.
C13_Witness ==
    /\ pc = "done"
    /\ \E a, b, c, k \in 1..Len(raw) :
          /\ a < k /\ b < k /\ c < k
          /\ raw[a].ad
          /\ district \notin raw[b].local
          /\ ~looks_recent(raw[c].published, now)
          /\ \E j \in 1..Len(dispatched) :
                /\ dispatched[j].pos = k /\ dispatched[j].ok
                /\ already_sent(db, chat_norm, KeyOf(raw[k]))
          /\ \A j \in 1..Len(dispatched) : dispatched[j].pos \notin {a, b, c}

\* Older than FRESH_HOURS at time t.
Stale(published, t) == t - published > FreshSeconds

----------------------------------------------------------------------------
(* looks_like_ad *)

MaxWords == 3       \* a drawn text has at most this many phrases

\* A text is the phrases it holds, in order, written in small letters or in
\* capitals.  The phrases stand for: "dom", "kafe", "akciya", "v ls",
\* "+7 495 123-45-67", "500 rub", "ezhednevno" in Russian letters.
Phrases == {"dom", "kafe", "akciya", "v ls", "phone", "500 rub", "ezhednevno"}

\* The patterns that match a phrase written in small letters.
Patterns(phrase) ==
    CASE phrase = "kafe" -> {"AD_KEYWORDS"}
      [] phrase = "akciya" -> {"AD_KEYWORDS", "CTA_RE"}
      [] phrase = "v ls" -> {"CTA_RE"}
      [] phrase = "phone" -> {"PHONE_RE"}
      [] phrase = "500 rub" -> {"PRICE_RE"}
      [] phrase = "ezhednevno" -> {"WORKTIME_RE"}
      [] OTHER -> {}

\* t.lower()
lower(t) == [t EXCEPT !.upper = FALSE]

\* pattern.search(low): a match anywhere in the text.  The phrases of the
\* patterns are in small letters and every pattern ignores case.
search(pattern, low) ==
    \E k \in 1..Len(low.words) : pattern \in Patterns(low.words[k])

\* the patterns, in the order looks_like_ad tries them
DETECTORS == <<"AD_KEYWORDS", "CTA_RE", "PHONE_RE", "PRICE_RE", "WORKTIME_RE">>

AD_SIGNALS == 2

\* A seeded fault: one signal is enough.
IsAdOnOneSignal(signals) == signals >= 1

\* return signals >= 2
IsAd(signals) == signals >= AD_SIGNALS

AdTexts ==
    { [words |-> w, upper |-> u] :
        w \in UNION { [1..n -> Phrases] : n \in 0..MaxWords }, u \in BOOLEAN }

InitAd ==
    /\ NoSplit /\ BotStart /\ NoRun
    /\ SanitizeIdle /\ RetryIdle /\ LocalIdle /\ MainIdle
    /\ FetchIdle /\ KeyIdle /\ StoreIdle /\ MediaIdle
    /\ \E t \in AdTexts :
          /\ t.words = <<>> => ~t.upper
          /\ classifying = [pc |-> "called", t |-> t, low |-> t, signals |-> 0,
                            at |-> 1, verdict |-> FALSE]

\* `if not t: return False`
AdEmpty ==
    /\ classifying.pc = "called"
    /\ classifying.t.words = <<>>
    /\ classifying' = [classifying EXCEPT !.pc = "returned", !.verdict = FALSE]
    /\ UNCHANGED <<chunkVars, botVars, runVars, besidesClassifying>>

\* low = t.lower(); signals = 0
AdLower ==
    /\ classifying.pc = "called"
    /\ classifying.t.words # <<>>
    /\ classifying' = [classifying EXCEPT !.pc = "signals", !.low = lower(@),
                                          !.signals = 0]
    /\ UNCHANGED <<chunkVars, botVars, runVars, besidesClassifying>>

\* one line `if X.search(low): signals += 1`
AdSignal ==
    /\ classifying.pc = "signals"
    /\ classifying.at <= Len(DETECTORS)
    /\ classifying' =
          [classifying EXCEPT
              !.signals = IF search(DETECTORS[classifying.at], classifying.low)
                          THEN @ + 1 ELSE @,
              !.at = @ + 1]
    /\ UNCHANGED <<chunkVars, botVars, runVars, besidesClassifying>>

\* return signals >= 2
AdReturn ==
    /\ classifying.pc = "signals"
    /\ classifying.at > Len(DETECTORS)
    /\ classifying' = [classifying EXCEPT !.pc = "returned",
                                          !.verdict = IsAd(classifying.signals)]
    /\ UNCHANGED <<chunkVars, botVars, runVars, besidesClassifying>>

NextAd == AdEmpty \/ AdLower \/ AdSignal \/ AdReturn

SpecAd == InitAd /\ [][NextAd]_vars

\* The detectors that fire on a text.
Firing(low) ==
    { d \in {"AD_KEYWORDS", "CTA_RE", "PHONE_RE", "PRICE_RE", "WORKTIME_RE"} :
        search(d, low) }

\* C15: looks_like_ad calls a text promotional exactly when at least 2 of
\* the 5 detectors (keyword, CTA, phone, price, hours) fire on the
\* lowercased text; every detector is tried and counted, so the verdict is
\* that of the set of detectors that fire, whatever the order; an empty
\* text is never an ad.
C15_TwoOfFive ==
    classifying.pc = "returned" =>
        LET t == classifying.t
        IN /\ t.words = <<>> => ~classifying.verdict
           /\ t.words # <<>> =>
                 /\ classifying.low = lower(t)
                 /\ classifying.at = Len(DETECTORS) + 1
                 /\ classifying.signals = Cardinality(Firing(lower(t)))
                 /\ classifying.verdict <=> Cardinality(Firing(lower(t))) >= 2

\* A text in capitals was classified as an ad on exactly two signals, one
\* of them the call to action.
C15_Witness ==
    /\ classifying.pc = "returned"
    /\ classifying.t.upper
    /\ classifying.verdict
    /\ Cardinality(Firing(lower(classifying.t))) = 2
    /\ search("CTA_RE", classifying.low)
    /\ ~search("AD_KEYWORDS", classifying.low)

----------------------------------------------------------------------------
(* _make_dedup_key on two triples *)

\* Titles and summaries around the length the key keeps, short ones, and
\* ones that hold the separator of the key.
KeyTitles ==
    { <<>>, Title("a", 1), Title("a", KEY_FIELD_LIMIT - 1), Title("a", KEY_FIELD_LIMIT),
      Title("a", KEY_FIELD_LIMIT + 1), Title("a", KEY_FIELD_LIMIT + 2),
      << <<"a", 1>>, <<"|", 2>>, <<"b", 1>> >> }

KeySummaries ==
    { <<>>, Title("b", 1), Title("c", 1), Title("c", KEY_FIELD_LIMIT),
      Title("c", KEY_FIELD_LIMIT + 1),
      << <<"b", 1>>, <<"|", 2>>, <<"c", 1>> >> }

KeySources == {"@infomoscow24", "@msk1_news"}

Triples ==
    { [title |-> t, summary |-> s, source |-> h] :
        t \in KeyTitles, s \in KeySummaries, h \in KeySources }

InitKey ==
    /\ NoSplit /\ BotStart /\ NoRun
    /\ SanitizeIdle /\ RetryIdle /\ LocalIdle /\ MainIdle
    /\ FetchIdle /\ AdIdle /\ StoreIdle /\ MediaIdle
    /\ \E a, b \in Triples :
          keying = [pc |-> "first", a |-> a, b |-> b, ka |-> <<>>, kb |-> <<>>]

\* key = _make_dedup_key(...) for the first triple
KeyFirst ==
    /\ keying.pc = "first"
    /\ keying' = [keying EXCEPT !.pc = "second", !.ka = KeyOf(keying.a)]
    /\ UNCHANGED <<chunkVars, botVars, runVars, besidesKeying>>

\* and for the second
KeySecond ==
    /\ keying.pc = "second"
    /\ keying' = [keying EXCEPT !.pc = "done", !.kb = KeyOf(keying.b)]
    /\ UNCHANGED <<chunkVars, botVars, runVars, besidesKeying>>

NextKey == KeyFirst \/ KeySecond

SpecKey == InitKey /\ [][NextKey]_vars

BarFree(tr) == ~Holds(tr.title, "|") /\ ~Holds(tr.summary, "|")

\* What the key keeps of the title and of the summary.
Kept(tr) ==
    [title |-> Slice(tr.title, KEY_FIELD_LIMIT),
     summary |-> Slice(tr.summary, KEY_FIELD_LIMIT),
     source |-> tr.source]

\* C16 as stated: identical (title, summary, source) give the identical
\* key, and any two triples that differ in at least one field give
\* different keys.
C16_DistinctTriplesDistinctKeys ==
    keying.pc = "done" =>
        /\ keying.a = keying.b => keying.ka = keying.kb
        /\ keying.a # keying.b => keying.ka # keying.kb

\* C16, amended: identical triples give the identical key; triples that
\* are equal in the source and in the first 1024 characters of the title
\* and of the summary give the identical key; and triples that differ in
\* the source or in those first 1024 characters give different keys when
\* neither title nor summary holds a "|".
C16_KeyOfKeptFields ==
    keying.pc = "done" =>
        /\ keying.a = keying.b => keying.ka = keying.kb
        /\ Kept(keying.a) = Kept(keying.b) => keying.ka = keying.kb
        /\ (/\ Kept(keying.a) # Kept(keying.b)
            /\ BarFree(keying.a) /\ BarFree(keying.b)) => keying.ka # keying.kb

\* Two triples that differ only in the source got different keys, and the
\* title of both is longer than the key keeps.
C16_Witness ==
    /\ keying.pc = "done"
    /\ keying.a.title = keying.b.title
    /\ keying.a.summary = keying.b.summary
    /\ keying.a.source # keying.b.source
    /\ StrLen(keying.a.title) > KEY_FIELD_LIMIT
    /\ BarFree(keying.a)
    /\ keying.ka # keying.kb

----------------------------------------------------------------------------
(* The table `sent` under its three operations *)

StoreKeys == { KeyOf(PostA), KeyOf(PostB) }

\* `storing` is the latest call on the table: the operation, its arguments
\* and what it returned; for mark_sent, whether the pair had a record.
Stored(op, chat, key, result) ==
    [op |-> op, chat |-> chat, key |-> key, result |-> result]

InitStore ==
    /\ NoSplit /\ BotStart /\ NoRun
    /\ SanitizeIdle /\ RetryIdle /\ LocalIdle /\ MainIdle
    /\ FetchIdle /\ AdIdle /\ KeyIdle /\ MediaIdle
    /\ \E c \in ChatIds, k \in StoreKeys : storing = Stored("db_init", c, k, FALSE)

\* db_init of a later process: CREATE TABLE IF NOT EXISTS
DbInit ==
    /\ \E c \in ChatIds, k \in StoreKeys : storing' = Stored("db_init", c, k, FALSE)
    /\ UNCHANGED db
    /\ UNCHANGED <<pc, district, raw, page, filtered, idx, sent, dispatched, replay,
                   delivered, runs>>
    /\ UNCHANGED <<chunkVars, botVars, besidesStoring>>

AlreadySent ==
    /\ \E c \in ChatIds, k \in StoreKeys :
          storing' = Stored("already_sent", c, k, already_sent(db, c, k))
    /\ UNCHANGED db
    /\ UNCHANGED <<pc, district, raw, page, filtered, idx, sent, dispatched, replay,
                   delivered, runs>>
    /\ UNCHANGED <<chunkVars, botVars, besidesStoring>>

MarkSent ==
    /\ \E c \in ChatIds, k \in StoreKeys :
          /\ storing' = Stored("mark_sent", c, k, already_sent(db, c, k))
          /\ db' = mark_sent(db, c, k, now)
    /\ UNCHANGED <<pc, district, raw, page, filtered, idx, sent, dispatched, replay,
                   delivered, runs>>
    /\ UNCHANGED <<chunkVars, botVars, besidesStoring>>

NextStore == DbInit \/ AlreadySent \/ MarkSent \/ Tick

SpecStore == InitStore /\ [][NextStore]_vars

\* The rows of the table for a pair.
RowsOf(table, chat, key) == { row \in table : row[1] = chat /\ row[2] = key }

\* C17: already_sent(target, key) is true exactly when the table holds a
\* record for that very pair; mark_sent(A, k) leaves already_sent and the
\* record of every other pair as they were, and leaves one record for
\* (A, k), with the time of the call; the table never holds two records
\* for one pair, and no operation removes the record of a pair.
C17_StoreSemantics ==
    [][ now' = now =>
          LET op == storing'
          IN /\ \A c \in ChatIds, k \in StoreKeys :
                   /\ Cardinality(RowsOf(db', c, k)) <= 1
                   /\ RowsOf(db, c, k) # {} => RowsOf(db', c, k) # {}
                   /\ <<c, k>> # <<op.chat, op.key>> =>
                         /\ RowsOf(db', c, k) = RowsOf(db, c, k)
                         /\ already_sent(db', c, k) <=> already_sent(db, c, k)
             /\ op.op = "already_sent" =>
                   /\ db' = db
                   /\ op.result <=> RowsOf(db, op.chat, op.key) # {}
             /\ op.op = "db_init" => db' = db
             /\ op.op = "mark_sent" =>
                   /\ RowsOf(db', op.chat, op.key) = { <<op.chat, op.key, now>> }
                   /\ already_sent(db', op.chat, op.key) ]_vars

\* A pair that had a record was marked again at a later time: its one
\* record has the later time, the record of the same key for the other
\* chat has its earlier time, and a pair without a record is not seen.
C17_Witness ==
    /\ now > 0
    /\ storing.op = "mark_sent" /\ storing.result
    /\ RowsOf(db, storing.chat, storing.key) = { <<storing.chat, storing.key, now>> }
    /\ \E c \in ChatIds :
          /\ c # storing.chat
          /\ RowsOf(db, c, storing.key) = { <<c, storing.key, 0>> }
          /\ \E k \in StoreKeys : ~already_sent(db, c, k)

----------------------------------------------------------------------------
(* send_item choosing its media: prepare_media on the videos, then on the *)
(* photos                                                                 *)

MaxCandidates == 2  \* a drawn list of URLs has at most this many entries

\* A video link, a photo link, a link of the Telegram CDN without an
\* extension, and a link that is neither.
CandidateUrls == { Url("mp4", FALSE), Url("jpg", FALSE), Url("", TRUE), Url("", FALSE) }

CandidateLists == UNION { [1..n -> CandidateUrls] : n \in 0..MaxCandidates }

\* A seeded fault: the walk goes on after a download that succeeded.
FoundNever(got) == FALSE

\* `if got:`
Found(got) == got # NoMedia

\* `preparing`: the two lists of the item, the list prepare_media walks
\* ("video_urls", then "photo_urls"), its place i in it, the downloads made
\* so far and the local `media` of send_item.
InitMedia ==
    /\ NoSplit /\ BotStart /\ NoRun
    /\ SanitizeIdle /\ RetryIdle /\ LocalIdle /\ MainIdle
    /\ FetchIdle /\ AdIdle /\ KeyIdle /\ StoreIdle
    /\ downloading = Idle
    /\ \E vs, ps \in CandidateLists :
          preparing = [pc |-> "video_urls", video_urls |-> vs, photo_urls |-> ps,
                       i |-> 1, log |-> <<>>, media |-> NoMedia]

\* the list prepare_media is walking
Walked == IF preparing.pc = "video_urls" THEN preparing.video_urls
          ELSE preparing.photo_urls

\* `if not (is_image_url(u) or is_video_url(u)): continue`
PrepareSkip ==
    /\ preparing.pc \in {"video_urls", "photo_urls"}
    /\ preparing.i <= Len(Walked)
    /\ ~(is_image_url(Walked[preparing.i]) \/ is_video_url(Walked[preparing.i]))
    /\ preparing' = [preparing EXCEPT !.i = @ + 1]
    /\ UNCHANGED <<chunkVars, botVars, runVars, besidesMedia, downloading>>

\* `got = download_binary(u)` and `if got: return got`
PrepareDownload ==
    /\ preparing.pc \in {"video_urls", "photo_urls"}
    /\ preparing.i <= Len(Walked)
    /\ is_image_url(Walked[preparing.i]) \/ is_video_url(Walked[preparing.i])
    /\ \E got \in download_binary(Walked[preparing.i]) :
          LET entry == [list |-> preparing.pc, i |-> preparing.i, got |-> got]
          IN preparing' =
                IF Found(got)
                THEN [preparing EXCEPT !.pc = "prepared", !.media = got,
                                       !.log = Append(@, entry)]
                ELSE [preparing EXCEPT !.i = @ + 1, !.log = Append(@, entry)]
    /\ UNCHANGED <<chunkVars, botVars, runVars, besidesMedia, downloading>>

\* `return None` of prepare_media: after the videos, `or` goes on to the
\* photos; after the photos, media is None
PrepareNone ==
    /\ preparing.pc \in {"video_urls", "photo_urls"}
    /\ preparing.i > Len(Walked)
    /\ preparing' = IF preparing.pc = "video_urls"
                    THEN [preparing EXCEPT !.pc = "photo_urls", !.i = 1]
                    ELSE [preparing EXCEPT !.pc = "prepared", !.media = NoMedia]
    /\ UNCHANGED <<chunkVars, botVars, runVars, besidesMedia, downloading>>

NextMedia == PrepareSkip \/ PrepareDownload \/ PrepareNone

SpecMedia == InitMedia /\ [][NextMedia]_vars

\* The candidates of an item in the order of the claim: the links of the
\* video list that match a pattern, then those of the photo list.
Candidates(vs, ps) ==
    LET Tag(list, urls) == [k \in 1..Len(urls) |-> [list |-> list, i |-> k, u |-> urls[k]]]
    IN SelectSeq(Tag("video_urls", vs) \o Tag("photo_urls", ps),
                 LAMBDA c : is_image_url(c.u) \/ is_video_url(c.u))

\* C18: send_item tries every video candidate before any photo candidate;
\* prepare_media walks its list in order, skips the URLs that match neither
\* an extension pattern nor the CDN pattern, and returns the asset of the
\* first candidate whose download completes; no later candidate is
\* downloaded, and the result is None when no candidate succeeds.
C18_FirstCandidateThatDownloads ==
    LET cands == Candidates(preparing.video_urls, preparing.photo_urls)
        log == preparing.log
    IN /\ Len(log) <= Len(cands)
       /\ \A j \in 1..Len(log) :
             /\ log[j].list = cands[j].list /\ log[j].i = cands[j].i
             /\ j < Len(log) => log[j].got = NoMedia
       /\ preparing.pc # "prepared" =>
             \A j \in 1..Len(log) : log[j].got = NoMedia
       /\ preparing.pc = "prepared" =>
             preparing.media \in
                { IF v # NoMedia THEN v ELSE p :
                    v \in prepare_media(preparing.video_urls),
                    p \in prepare_media(preparing.photo_urls) }
       /\ preparing.pc = "prepared" =>
             IF preparing.media # NoMedia
             THEN log # <<>> /\ log[Len(log)].got = preparing.media
             ELSE /\ Len(log) = Len(cands)
                  /\ \A j \in 1..Len(log) : log[j].got = NoMedia

\* The first video link matched no pattern and was skipped, the download
\* of the second failed, the first photo was downloaded and is the media,
\* and the second photo, a candidate too, was not downloaded.
C18_Witness ==
    /\ preparing.pc = "prepared"
    /\ Len(preparing.video_urls) = 2 /\ Len(preparing.photo_urls) = 2
    /\ ~(is_image_url(preparing.video_urls[1]) \/ is_video_url(preparing.video_urls[1]))
    /\ is_image_url(preparing.photo_urls[2])
    /\ Len(preparing.log) = 2
    /\ preparing.log[1] = [list |-> "video_urls", i |-> 2, got |-> NoMedia]
    /\ preparing.log[2].list = "photo_urls" /\ preparing.log[2].i = 1
    /\ preparing.media = preparing.log[2].got
    /\ preparing.media # NoMedia

----------------------------------------------------------------------------
(* download_binary, block by block *)

MAX_BYTES == 52428800       \* max_bytes, 50 * 1024 * 1024
ITER_BLOCK == 32768         \* r.iter_content(32768)

\* None, and the returned (name, data, kind) with the length of data.
NoAsset == [name |-> "", kind |-> "none", size |-> 0]
Asset(kind, size) ==
    [name |-> IF kind = "image" THEN "media.jpg" ELSE "media.mp4",
     kind |-> kind, size |-> size]

\* The body a server streams is a sequence of runs <<size, count>>: count
\* blocks of size bytes each, size at most ITER_BLOCK; a block of size 0 is
\* an empty chunk.
Streams ==
    { <<>>,
      << <<0, 2>> >>,
      << <<100, 1>> >>,
      << <<ITER_BLOCK, MAX_BYTES \div ITER_BLOCK>> >>,
      << <<ITER_BLOCK, MAX_BYTES \div ITER_BLOCK>>, <<0, 1>>, <<1, 1>>, <<ITER_BLOCK, 2>> >>,
      << <<ITER_BLOCK, (MAX_BYTES \div ITER_BLOCK) - 1>>, <<ITER_BLOCK - 1, 1>>,
         <<2, 1>>, <<5, 1>> >> }

\* The bytes of the first k blocks of a stream.
RECURSIVE Bytes(_, _)
Bytes(stream, k) ==
    IF k = 0 \/ stream = <<>> THEN 0
    ELSE LET n == IF k < stream[1][2] THEN k ELSE stream[1][2]
         IN n * stream[1][1] + Bytes(Tail(stream), k - n)

RECURSIVE Blocks(_)
Blocks(stream) ==
    IF stream = <<>> THEN 0 ELSE stream[1][2] + Blocks(Tail(stream))

\* The kind the content type and the URL give, "none" for neither.
KindOf(ct, video_ext) ==
    IF ct = "image" THEN "image"
    ELSE IF ct = "video" \/ video_ext THEN "video"
    ELSE "none"

\* A seeded fault: the total is never over the ceiling.
OverCeilingNever(total, max_bytes) == FALSE

\* `if total > max_bytes`
OverCeiling(total, max_bytes) == total > max_bytes

\* `downloading`: the response (status, content type, whether the URL has
\* a video or an image extension, the stream), the locals kind, total and
\* the bytes written to the temporary file, the place in the stream (run,
\* done) and the number of blocks read, the number of temporary files of
\* the call that exist (tmp), the returned value and why it was returned.
\* A content type "" is a response without the header.
InitDownload ==
    /\ NoSplit /\ BotStart /\ NoRun
    /\ SanitizeIdle /\ RetryIdle /\ LocalIdle /\ MainIdle
    /\ FetchIdle /\ AdIdle /\ KeyIdle /\ StoreIdle
    /\ preparing = Idle
    /\ \E status \in {200, 404}, ct \in {"image", "video", "json", ""},
          video_ext \in BOOLEAN, image_ext \in BOOLEAN, stream \in Streams :
          /\ (status # 200 \/ KindOf(ct, video_ext) = "none") => stream = <<>>
          /\ ~(video_ext /\ image_ext)
          /\ downloading = [pc |-> "called", status |-> status, ct |-> ct,
                            video_ext |-> video_ext, image_ext |-> image_ext,
                            stream |-> stream, tmp |-> 0,
                            max_bytes |-> MAX_BYTES, kind |-> "none",
                            total |-> 0, written |-> 0, run |-> 1, done |-> 0,
                            read |-> 0, result |-> NoAsset, why |-> ""]

Returned(d, result, why) ==
    [d EXCEPT !.pc = "returned", !.result = result, !.why = why]

\* SESSION.get, the status test and the choice of kind; total = 0 and the
\* temporary file is created
DownloadOpen ==
    /\ downloading.pc = "called"
    /\ downloading' =
          IF downloading.status >= 400 THEN Returned(downloading, NoAsset, "status")
          ELSE IF KindOf(downloading.ct, downloading.video_ext) = "none"
               THEN Returned(downloading, NoAsset, "type")
               ELSE [downloading EXCEPT
                        !.pc = "streaming",
                        !.kind = KindOf(downloading.ct, downloading.video_ext),
                        !.total = 0, !.tmp = @ + 1]
    /\ UNCHANGED <<chunkVars, botVars, runVars, besidesMedia, preparing>>

\* one turn of `for chunk in r.iter_content(32768)`; over the ceiling
\* the temporary file is closed and unlinked
DownloadBlock ==
    /\ downloading.pc = "streaming"
    /\ downloading.run <= Len(downloading.stream)
    /\ LET d == downloading
           chunk == d.stream[d.run][1]
           last == d.done + 1 = d.stream[d.run][2]
           total == d.total + chunk
           next == [d EXCEPT !.read = @ + 1,
                             !.run = IF last THEN @ + 1 ELSE @,
                             !.done = IF last THEN 0 ELSE @ + 1]
       IN downloading' =
            IF chunk = 0 THEN next
            ELSE IF OverCeiling(total, d.max_bytes)
                 THEN Returned([next EXCEPT !.total = total, !.written = 0,
                                            !.tmp = @ - 1],
                               NoAsset, "ceiling")
                 ELSE [next EXCEPT !.total = total, !.written = @ + chunk]
    /\ UNCHANGED <<chunkVars, botVars, runVars, besidesMedia, preparing>>

\* the read back after the loop with the unlink of its `finally`,
\* `if not data: return None`, and the return
DownloadReadBack ==
    /\ downloading.pc = "streaming"
    /\ downloading.run > Len(downloading.stream)
    /\ LET d == [downloading EXCEPT !.tmp = @ - 1]
       IN downloading' =
             IF d.written = 0 THEN Returned(d, NoAsset, "empty")
             ELSE Returned(d, Asset(d.kind, d.written), "data")
    /\ UNCHANGED <<chunkVars, botVars, runVars, besidesMedia, preparing>>

\* SESSION.get raises, or iter_content or tf.write raises inside the
\* loop: the `with` blocks close the file and the response, and the outer
\* `except Exception: return None` returns; nothing on this way unlinks
\* the temporary file.
DownloadRaise ==
    /\ downloading.pc \in {"called", "streaming"}
    /\ downloading' = Returned(downloading, NoAsset, "error")
    /\ UNCHANGED <<chunkVars, botVars, runVars, besidesMedia, preparing>>

NextDownload == DownloadOpen \/ DownloadBlock \/ DownloadReadBack \/ DownloadRaise

SpecDownload == InitDownload /\ [][NextDownload]_vars

\* C19: download_binary checks the byte total after every streamed block;
\* as soon as the total exceeds max_bytes it gives up and returns None
\* without reading a further block, so a returned asset never holds more
\* than max_bytes bytes and a body larger than the ceiling never becomes an
\* asset.
C19_ByteCeiling ==
    LET d == downloading
    IN /\ d.total = Bytes(d.stream, d.read)
       /\ d.pc = "streaming" => d.total <= d.max_bytes /\ d.written = d.total
       /\ (d.pc = "returned" /\ d.why = "ceiling") =>
             /\ d.result = NoAsset
             /\ Bytes(d.stream, d.read) > d.max_bytes
             /\ Bytes(d.stream, d.read - 1) <= d.max_bytes
       /\ (d.pc = "returned" /\ d.result # NoAsset) =>
             /\ d.result.size <= d.max_bytes
             /\ d.result.size = Bytes(d.stream, Blocks(d.stream))
       /\ (d.pc = "returned" /\ Bytes(d.stream, Blocks(d.stream)) > d.max_bytes) =>
             d.result = NoAsset

\* A download was given up on the block that took the total one byte over
\* the ceiling, with blocks of the body still unread.
C19_Witness ==
    /\ downloading.pc = "returned"
    /\ downloading.why = "ceiling"
    /\ downloading.total = downloading.max_bytes + 1
    /\ downloading.read < Blocks(downloading.stream)
    /\ downloading.result = NoAsset

----------------------------------------------------------------------------
(* Claim on the text send_item sends *)

\* C20: build_caption returns at most 1024 characters for every title and
\* summary, and this caption is the only text send_item hands to
\* tg_send_message; so the text is within the limit of 4096 and a text
\* delivery is exactly one chunk.
C20_CaptionIsOneChunk ==
    call.fn = "send_item" =>
        /\ StrLen(call.caption) <= CAPTION_LIMIT
        /\ _split_chunks(call.caption, TG_TEXT_LIMIT) = << call.caption >>
        /\ \A k \in 1..Len(call.log) :
              LET e == call.log[k]
              IN /\ e.api = "tg_send_message" => e.text = call.caption
                 /\ e.api = "sendMessage" =>
                       /\ e.chunk = 1
                       /\ e.text = call.caption
                       /\ StrLen(e.text) <= TG_TEXT_LIMIT

\* send_item delivered as text a caption of exactly 1024 characters, cut
\* from the two sentences of a summary of more than 4096 characters.
C20_Witness ==
    /\ call.fn = "send_item"
    /\ call.ok
    /\ call.media = NoMedia
    /\ StrLen(call.caption) = CAPTION_LIMIT
    /\ Len(call.caption) > 1
    /\ \E k \in 1..Len(call.log) :
          /\ call.log[k].api = "sendMessage"
          /\ call.log[k].text = call.caption
          /\ call.log[k].res = "ok"

----------------------------------------------------------------------------
(* sanitize, stage by stage *)

MaxPieces == 4      \* a drawn text is made of at most this many pieces

\* "https://a ", "https:", "//a", "t.me/", "@ab", " #a", "#b" and "b"
Pieces ==
    { Pack(<<"h", "t", "t", "p", "s", ":", "/", "/", "a", SP>>),
      Pack(<<"h", "t", "t", "p", "s", ":">>),
      Pack(<<"/", "/", "a">>),
      Pack(<<"t", ".", "m", "e", "/">>),
      Pack(<<"@", "a", "b">>),
      Pack(<<SP, "#", "a">>),
      Pack(<<"#", "b">>),
      Pack(<<"b">>) }

RECURSIVE CatAll(_)
CatAll(ps) == IF ps = <<>> THEN <<>> ELSE Cat(ps[1], CatAll(Tail(ps)))

SanitizeTexts == { CatAll(ps) : ps \in UNION { [1..n -> Pieces] : n \in 0..MaxPieces } }

STAGES == <<"strip_urls", "remove_mentions", "strip_hashtags_simple",
            "remove_sender_phrases", "drop_after_subscribe_calls",
            "collapse_ws_keep_newlines">>

ApplyStage(stage, t) ==
    CASE stage = "strip_urls" -> strip_urls(t)
      [] stage = "remove_mentions" -> remove_mentions(t)
      [] stage = "strip_hashtags_simple" -> strip_hashtags_simple(t)
      [] stage = "remove_sender_phrases" -> remove_sender_phrases(t)
      [] stage = "drop_after_subscribe_calls" -> drop_after_subscribe_calls(t)
      [] stage = "collapse_ws_keep_newlines" -> collapse_ws_keep_newlines(t)

InitSanitize ==
    /\ NoSplit /\ BotStart /\ NoRun
    /\ FetchIdle /\ AdIdle /\ KeyIdle /\ StoreIdle /\ MediaIdle
    /\ RetryIdle /\ LocalIdle /\ MainIdle
    /\ \E t \in SanitizeTexts :
          sanitizing = [pc |-> "called", arg |-> t, t |-> t, stage |-> 1]

\* one line `t = stage(t)` of sanitize
SanitizeStage ==
    /\ sanitizing.pc = "called"
    /\ sanitizing.stage <= Len(STAGES)
    /\ sanitizing' = [sanitizing EXCEPT
                         !.t = ApplyStage(STAGES[sanitizing.stage], @),
                         !.stage = @ + 1]
    /\ UNCHANGED <<chunkVars, botVars, runVars, besidesSanitizing>>

\* the return
SanitizeReturn ==
    /\ sanitizing.pc = "called"
    /\ sanitizing.stage > Len(STAGES)
    /\ sanitizing' = [sanitizing EXCEPT !.pc = "returned"]
    /\ UNCHANGED <<chunkVars, botVars, runVars, besidesSanitizing>>

NextSanitize == SanitizeStage \/ SanitizeReturn

SpecSanitize == InitSanitize /\ [][NextSanitize]_vars

\* Some substring of the text matches the URL pattern.
HasUrl(t) == \E i \in 1..StrLen(t) : UrlAt(Unpack(t), i) > 0

\* C21: for every text that contains a bare URL (http://..., https://...
\* or t.me/...), what sanitize returns contains no substring that matches
\* the URL pattern, also after the mention and hashtag stages have removed
\* their tokens.
C21_NoUrlSurvives ==
    (sanitizing.pc = "returned" /\ HasUrl(sanitizing.arg)) =>
        /\ sanitizing.t = sanitize(sanitizing.arg)
        /\ ~HasUrl(sanitizing.t)

----------------------------------------------------------------------------
(* main: the walk over the targets and their items.  Each step is one     *)
(* network site of the run: the fetch of a target's sources, the download *)
(* of an item's media, an upload attempt, the reachability check, an      *)
(* attempt to send the text.  A site's requests are the runs of its retry *)
(* loop; a run that ends with "raise" is an exception at that site.       *)

\* the targets of main that the model holds, in the order of main's list
MAIN_TARGETS == <<"Presnenskiy", "Akademicheskiy">>

\* the most items one target's capped list holds
MaxItems == 2

\* The sites whose exceptions the upload's own handler does not see: all
\* but the upload.
CatchesAllButUpload(site) == site # "tg_send_media_upload"

\* The handler around a network site: the fetcher's `except Exception:
\* continue`, download_binary's `except Exception: return None`, and the
\* `except Exception` of tg_check_chat, tg_send_message and
\* tg_send_media_upload.
Catches(site) ==
    site \in {"fetch_tg_channel_posts_no_login", "download_binary",
              "tg_check_chat", "tg_send_message", "tg_send_media_upload"}

\* an exception at a site: the walk goes on as its handler says, or the
\* exception leaves the run
Raised(site, caught) ==
    IF Catches(site) THEN caught ELSE [walking EXCEPT !.pc = "aborted"]

\* send_item returned (or the item was skipped as seen): the loop of
\* process_district goes to the next item
ItemReturns(result) ==
    [walking EXCEPT !.pc = "item", !.item = @ + 1, !.k = 1,
                    !.handled = Append(@, [target |-> walking.target,
                                           item |-> walking.item,
                                           result |-> result])]

InitMain ==
    /\ NoSplit /\ BotStart /\ NoRun
    /\ FetchIdle /\ AdIdle /\ KeyIdle /\ StoreIdle /\ MediaIdle
    /\ SanitizeIdle /\ RetryIdle /\ LocalIdle
    /\ walking = [pc |-> "main", target |-> 1, items |-> 0, item |-> 1,
                  k |-> 1, tries |-> 0, visited |-> <<>>, fetched |-> <<>>,
                  handled |-> <<>>]

\* main's loop head: the next target of the list, skipped when it has no
\* chat; after the last one main returns
MainTarget ==
    /\ walking.pc = "main"
    /\ walking' =
          IF walking.target > Len(MAIN_TARGETS)
          THEN [walking EXCEPT !.pc = "returned"]
          ELSE IF MAIN_TARGETS[walking.target] \notin DOMAIN CHATS
          THEN [walking EXCEPT !.target = @ + 1]
          ELSE [walking EXCEPT !.pc = "fetch",
                   !.visited = Append(@, MAIN_TARGETS[walking.target])]
    /\ UNCHANGED <<chunkVars, botVars, runVars, besidesWalking>>

\* process_district: the fetch of the target's sources and the filter
WalkFetch ==
    /\ walking.pc = "fetch"
    /\ \E run \in _get_with_retries, n \in 0..MaxItems :
          LET list(m) == [walking EXCEPT !.pc = "item", !.items = m,
                             !.item = 1, !.tries = Len(run),
                             !.fetched = Append(@, m)]
          IN walking' =
                IF Last(run) = "raise"
                THEN Raised("fetch_tg_channel_posts_no_login", list(0))
                ELSE IF Last(run) = "bad" THEN list(0)
                ELSE list(n)
    /\ UNCHANGED <<chunkVars, botVars, runVars, besidesWalking>>

\* process_district's loop over the capped list: past the end it returns
\* to main; an item already recorded is skipped; send_item starts with
\* prepare_media when the item has a media candidate
WalkItem ==
    /\ walking.pc = "item"
    /\ \/ /\ walking.item > walking.items
          /\ walking' = [walking EXCEPT !.pc = "main", !.target = @ + 1]
       \/ /\ walking.item <= walking.items
          /\ \E seen \in BOOLEAN, candidate \in BOOLEAN :
                walking' =
                   IF seen THEN ItemReturns("seen")
                   ELSE IF candidate
                   THEN [walking EXCEPT !.pc = "download"]
                   ELSE [walking EXCEPT !.pc = "check"]
    /\ UNCHANGED <<chunkVars, botVars, runVars, besidesWalking>>

\* prepare_media: download_binary gives the media or None
WalkDownload ==
    /\ walking.pc = "download"
    /\ \E run \in _get_with_retries :
          LET none == [walking EXCEPT !.pc = "check", !.tries = Len(run)]
          IN walking' =
                IF Last(run) = "raise" THEN Raised("download_binary", none)
                ELSE IF Last(run) = "bad" THEN none
                ELSE [walking EXCEPT !.pc = "upload", !.k = 1,
                                     !.tries = Len(run)]
    /\ UNCHANGED <<chunkVars, botVars, runVars, besidesWalking>>

\* one pass of the loop of tg_send_media_upload; after the last pass
\* send_item falls back to tg_send_message
WalkUpload ==
    /\ walking.pc = "upload"
    /\ \E run \in _post_with_retries :
          LET again == IF walking.k < SEND_ATTEMPTS
                       THEN [walking EXCEPT !.k = @ + 1, !.tries = Len(run)]
                       ELSE [walking EXCEPT !.pc = "check", !.k = 1,
                                            !.tries = Len(run)]
          IN walking' =
                IF Last(run) = "raise"
                THEN Raised("tg_send_media_upload", again)
                ELSE IF Last(run) = "bad" THEN again
                ELSE [ItemReturns("sent") EXCEPT !.tries = Len(run)]
    /\ UNCHANGED <<chunkVars, botVars, runVars, besidesWalking>>

\* tg_send_message: the reachability check, answered from the cache or by
\* a getChat request
WalkCheck ==
    /\ walking.pc = "check"
    /\ \/ \E cached \in BOOLEAN :
             walking' = IF cached THEN [walking EXCEPT !.pc = "send", !.k = 1]
                        ELSE ItemReturns("failed")
       \/ \E run \in _get_with_retries :
             LET failed == [ItemReturns("failed") EXCEPT !.tries = Len(run)]
             IN walking' =
                   IF Last(run) = "raise" THEN Raised("tg_check_chat", failed)
                   ELSE IF Last(run) = "bad" THEN failed
                   ELSE [walking EXCEPT !.pc = "send", !.k = 1,
                                        !.tries = Len(run)]
    /\ UNCHANGED <<chunkVars, botVars, runVars, besidesWalking>>

\* one pass of tg_send_message's loop for the caption's chunk
WalkSend ==
    /\ walking.pc = "send"
    /\ \E run \in _post_with_retries :
          LET again == IF walking.k < SEND_ATTEMPTS
                       THEN [walking EXCEPT !.k = @ + 1, !.tries = Len(run)]
                       ELSE [ItemReturns("failed") EXCEPT !.tries = Len(run)]
          IN walking' =
                IF Last(run) = "raise" THEN Raised("tg_send_message", again)
                ELSE IF Last(run) = "bad" THEN again
                ELSE [ItemReturns("sent") EXCEPT !.tries = Len(run)]
    /\ UNCHANGED <<chunkVars, botVars, runVars, besidesWalking>>

NextMain ==
    \/ MainTarget
    \/ WalkFetch
    \/ WalkItem
    \/ WalkDownload
    \/ WalkUpload
    \/ WalkCheck
    \/ WalkSend

\* the steps of the run are taken as long as one is possible: the script
\* runs alone and nothing cancels it
SpecMain == InitMain /\ [][NextMain]_vars /\ WF_vars(NextMain)

\* what was handled of target number i, in the order of handling
HandledOf(i) == SelectSeq(walking.handled, LAMBDA h : h.target = i)

\* every target of the list was visited in order, and every item of every
\* target's list was handled in order
FullWalk ==
    /\ walking.visited = MAIN_TARGETS
    /\ \A i \in 1..Len(MAIN_TARGETS) :
          /\ Len(HandledOf(i)) = walking.fetched[i]
          /\ \A j \in 1..Len(HandledOf(i)) : HandledOf(i)[j].item = j

\* C22: whatever the network does at the fetch, the reachability check,
\* the media download, the media upload and the text send, no exception
\* leaves the run, every retry loop stays within its number of attempts,
\* the targets are visited in the order of main's list, and the run ends
\* having handled every item of every target.
C22_WalksEverythingAndReturns ==
    /\ [](/\ walking.pc # "aborted"
          /\ walking.tries <= GET_RETRIES
          /\ walking.k <= SEND_ATTEMPTS
          /\ walking.visited = SubSeq(MAIN_TARGETS, 1, Len(walking.visited))
          /\ walking.pc = "returned" => FullWalk)
    /\ <>(walking.pc = "returned")

\* a run that returned after an item of the first target failed, with a
\* later item of that target and an item of the second target sent
C22_Witness ==
    /\ walking.pc = "returned"
    /\ Len(HandledOf(1)) = 2
    /\ HandledOf(1)[1].result = "failed"
    /\ HandledOf(1)[2].result = "sent"
    /\ \E j \in 1..Len(HandledOf(2)) : HandledOf(2)[j].result = "sent"

----------------------------------------------------------------------------
(* One successful dispatch for a target and a content key *)

\* the turn of the loop that just ended was a dispatch that reported success
Succeeded ==
    /\ Len(dispatched') = Len(dispatched) + 1
    /\ dispatched'[Len(dispatched')].ok

\* C23: over the runs of process_district, with every record written,
\* send_item returns True only for a post whose content key had no
\* successful dispatch to the run's target before; so a target gets at
\* most one successful dispatch for a content key, within one batch and
\* over later runs.
C23_OneSuccessPerKey ==
    [][Succeeded =>
          <<chat_norm, KeyOf(dispatched'[Len(dispatched')].item)>> \notin delivered]_vars

\* a finished second or later run whose capped list holds two posts of
\* one content key: the first was dispatched with success and the second
\* was skipped as seen
C23_Witness ==
    /\ pc = "done"
    /\ runs >= 2
    /\ \E i, j \in 1..Len(Capped(filtered)) :
          /\ i < j
          /\ KeyOf(filtered[i].item) = KeyOf(filtered[j].item)
          /\ \E k \in 1..Len(dispatched) :
                /\ dispatched[k].pos = filtered[i].pos
                /\ dispatched[k].ok
          /\ \A k \in 1..Len(dispatched) : dispatched[k].pos # filtered[j].pos

----------------------------------------------------------------------------
(* The cap comes before the dedup check *)

\* the entry of the sorted list at place i was dispatched in this run
DispatchedAt(i) ==
    \E k \in 1..Len(dispatched) : dispatched[k].pos = filtered[i].pos

\* C24: a run dispatches only posts that stand among the first
\* MAX_POSTS_PER_CHAT of the sorted filtered list; a place of these that
\* the loop has passed was either dispatched or skipped as recorded, so a
\* recorded post uses up its place; a post behind MAX_POSTS_PER_CHAT newer
\* filtered posts is not dispatched, sent before or not.
C24_CapBeforeDedup ==
    pc \in {"loop", "done"} =>
       /\ \A k \in 1..Len(dispatched) :
             \E i \in 1..MAX_POSTS_PER_CHAT :
                i <= Len(filtered) /\ filtered[i].pos = dispatched[k].pos
       /\ \A i \in 1..Len(filtered) :
             /\ i > MAX_POSTS_PER_CHAT => ~DispatchedAt(i)
             /\ (i <= MAX_POSTS_PER_CHAT /\ i < idx) =>
                   \/ DispatchedAt(i)
                   \/ already_sent(db, chat_norm, KeyOf(filtered[i].item))

\* a finished later run that skipped all of the first MAX_POSTS_PER_CHAT
\* posts as recorded and dispatched nothing, while an older post of the
\* list has never been sent to the target
C24_Witness ==
    /\ pc = "done"
    /\ runs >= 2
    /\ dispatched = <<>>
    /\ Len(filtered) > MAX_POSTS_PER_CHAT
    /\ \E i \in 1..Len(filtered) :
          /\ i > MAX_POSTS_PER_CHAT
          /\ ~already_sent(db, chat_norm, KeyOf(filtered[i].item))
          /\ <<chat_norm, KeyOf(filtered[i].item)>> \notin delivered

----------------------------------------------------------------------------
(* tg_send_message after a failed chunk *)

\* the sendMessage requests of the call, in order
Sends == SelectSeq(call.log, LAMBDA e : e.api = "sendMessage")

\* chunk ci was posted and none of its requests got a successful response
ChunkFailed(ci) ==
    /\ \E k \in 1..Len(Sends) : Sends[k].chunk = ci
    /\ \A k \in 1..Len(Sends) : Sends[k].chunk = ci => Sends[k].res # "ok"

\* C25: when a chunk has failed all its attempts, tg_send_message still
\* posts every later chunk of the text, after the failed one, and returns
\* False.
C25_GoesOnAfterFailedChunk ==
    call.fn = "tg_send_message" =>
        \A ci \in 1..Len(_split_chunks(call.text, TG_TEXT_LIMIT)) :
            ChunkFailed(ci) =>
                /\ ~call.ok
                /\ \A cj \in (ci + 1)..Len(_split_chunks(call.text, TG_TEXT_LIMIT)) :
                      \E k \in 1..Len(Sends) :
                         /\ Sends[k].chunk = cj
                         /\ \A j \in 1..Len(Sends) : Sends[j].chunk = ci => j < k

\* a text of two chunks or more whose first chunk failed and whose
\* later chunks were all delivered: the call returned False with the text
\* partly delivered
C25_Witness ==
    /\ call.fn = "tg_send_message"
    /\ ~call.ok
    /\ Len(_split_chunks(call.text, TG_TEXT_LIMIT)) >= 2
    /\ ChunkFailed(1)
    /\ \A cj \in 2..Len(_split_chunks(call.text, TG_TEXT_LIMIT)) :
          \E k \in 1..Len(Sends) : Sends[k].chunk = cj /\ Sends[k].res = "ok"

----------------------------------------------------------------------------
(* _get_with_retries, attempt by attempt *)

\* the default of `backoff`, 0.6 s, in milliseconds
BACKOFF == 600

\* the timeouts of the callers, in seconds
Timeouts == {15, 25}

\* what SESSION.get does: it returns a response with a status, or raises
Statuses == {200, 404, 500}
Exceptions == {"Timeout", "ConnectionError"}

Response(status) == [kind |-> "response", status |-> status, exc |-> "none"]
Raise(exc) == [kind |-> "raise", status |-> 0, exc |-> exc]

Gets == { Response(s) : s \in Statuses } \cup { Raise(e) : e \in Exceptions }

\* A seeded fault: the delay stays what it was.
DelayKept(delay) == delay

\* delay *= 2
Doubled(delay) == delay * 2

InitRetry ==
    /\ NoSplit /\ BotStart /\ NoRun
    /\ FetchIdle /\ AdIdle /\ KeyIdle /\ StoreIdle /\ MediaIdle
    /\ SanitizeIdle /\ LocalIdle /\ MainIdle
    /\ \E retries \in 1..GET_RETRIES, timeout \in Timeouts :
          retrying = [pc |-> "loop", retries |-> retries, backoff |-> BACKOFF,
                      timeout |-> timeout, attempt |-> 0, delay |-> BACKOFF,
                      gets |-> <<>>, sleeps |-> <<>>, result |-> Raise("none")]

\* one turn of `for attempt in range(retries)`: the request, and either
\* the return of its response, or the re-raise at the last attempt, or
\* the sleep and the doubling of the delay
GetAttempt ==
    /\ retrying.pc = "loop"
    /\ retrying.attempt < retrying.retries
    /\ \E got \in Gets :
          retrying' =
             IF got.kind = "response"
             THEN [retrying EXCEPT !.pc = "returned", !.result = got,
                                   !.gets = Append(@, got)]
             ELSE IF retrying.attempt + 1 = retrying.retries
             THEN [retrying EXCEPT !.pc = "raised", !.result = got,
                                   !.gets = Append(@, got)]
             ELSE [retrying EXCEPT !.attempt = @ + 1,
                                   !.gets = Append(@, got),
                                   !.sleeps = Append(@, retrying.delay),
                                   !.delay = Doubled(@)]
    /\ UNCHANGED <<chunkVars, botVars, runVars, besidesRetrying>>

NextRetry == GetAttempt

SpecRetry == InitRetry /\ [][NextRetry]_vars

RECURSIVE Pow2(_)
Pow2(n) == IF n = 0 THEN 1 ELSE 2 * Pow2(n - 1)

\* C26: _get_with_retries makes at most `retries` requests; each request
\* but the last one raised and was followed by a sleep, of `backoff` the
\* first time and of twice the sleep before each further time; it returns
\* the first response it gets, whatever its status, and after `retries`
\* raising requests it raises the last exception without a sleep.
C26_BoundedBackoff ==
    retrying.pc # "idle" =>
       /\ Len(retrying.gets) <= retrying.retries
       /\ retrying.retries <= GET_RETRIES
       /\ \A k \in 1..Len(retrying.sleeps) :
             retrying.sleeps[k] = retrying.backoff * Pow2(k - 1)
       /\ \A k \in 1..(Len(retrying.gets) - 1) : retrying.gets[k].kind = "raise"
       /\ retrying.pc = "loop" =>
             /\ Len(retrying.sleeps) = Len(retrying.gets)
             /\ \A k \in 1..Len(retrying.gets) : retrying.gets[k].kind = "raise"
       /\ retrying.pc = "returned" =>
             /\ retrying.result = retrying.gets[Len(retrying.gets)]
             /\ retrying.result.kind = "response"
             /\ Len(retrying.sleeps) = Len(retrying.gets) - 1
       /\ retrying.pc = "raised" =>
             /\ retrying.result = retrying.gets[Len(retrying.gets)]
             /\ retrying.result.kind = "raise"
             /\ Len(retrying.gets) = retrying.retries
             /\ Len(retrying.sleeps) = retrying.retries - 1

\* two requests raised, with sleeps of 0.6 s and 1.2 s, and the third got
\* a response with an error status, which was returned
C26_Witness ==
    /\ retrying.pc = "returned"
    /\ retrying.retries = 3
    /\ Len(retrying.gets) = 3
    /\ retrying.sleeps = <<600, 1200>>
    /\ retrying.result = Response(500)

----------------------------------------------------------------------------
(* One promotional word *)

\* the places of the text that hold a phrase some pattern matches
Indicators(t) == { k \in 1..Len(t.words) : Patterns(t.words[k]) # {} }

\* C27: a text with one single promotional word or phrase, and nothing
\* else that a pattern matches, fires at most one of the five detectors
\* and is not classified as an ad.
C27_OneIndicatorNeverAd ==
    (classifying.pc = "returned" /\ Cardinality(Indicators(classifying.t)) = 1) =>
        /\ Cardinality(Firing(lower(classifying.t))) <= 1
        /\ ~classifying.verdict

----------------------------------------------------------------------------
(* download_binary: the kind from the URL, and the temporary file *)

\* C28: for a response whose content type is neither an image nor a video
\* type, or is missing, download_binary goes on with kind image when the
\* URL has an image extension and with kind video when it has a video
\* extension; it rejects the candidate for its type only when the URL has
\* neither.
C28_UrlHintFallback ==
    LET d == downloading
    IN (d.pc \in {"streaming", "returned"} /\ d.status < 400 /\ d.why # "error"
          /\ d.ct \notin {"image", "video"}) =>
          /\ d.video_ext => (d.kind = "video" /\ d.why # "type")
          /\ d.image_ext => (d.kind = "image" /\ d.why # "type")
          /\ d.why = "type" => (~d.video_ext /\ ~d.image_ext)

\* C29: when download_binary has returned, on whichever way, the
\* temporary file of the call does not exist any more.
C29_NoTempFileLeft ==
    downloading.pc = "returned" => downloading.tmp = 0

----------------------------------------------------------------------------
(* mentions_local and the toponym test of the filter *)

MaxLetters == 4     \* a drawn text has at most this many letters

\* A text is a sequence of letters: "f", "i", "e" and "yo" stand for the
\* small Russian letters ef, i, ye and yo, "F" and "YO" for capitals.
LocalLetters == {"f", "F", "i", "e", "yo", "YO"}

LocalTexts == UNION { [1..n -> LocalLetters] : n \in 0..MaxLetters }

\* Three targets and their keywords: one whose set has a keyword with yo
\* in this spelling only (like "filyovskiy bulvar" of Fili), one whose set
\* has a keyword in both spellings (like "studeniy" and "studyoniy" of
\* Medvedkovo), and one without keywords.
TOPONYMS ==
    [d \in {"Fili", "Medvedkovo", "none"} |->
        CASE d = "Fili" -> { <<"f", "i">>, <<"f", "yo">> }
          [] d = "Medvedkovo" -> { <<"i", "e">>, <<"i", "yo">> }
          [] OTHER -> {}]

\* str.lower()
Lowered(cs) ==
    [k \in 1..Len(cs) |->
        CASE cs[k] = "F" -> "f"
          [] cs[k] = "YO" -> "yo"
          [] OTHER -> cs[k]]

\* .replace("yo", "ye")
YoReplaced(cs) == [k \in 1..Len(cs) |-> IF cs[k] = "yo" THEN "e" ELSE cs[k]]

\* `tp in low`
Within(tp, low) ==
    \E i \in 1..(Len(low) - Len(tp) + 1) : SubSeq(low, i, i + Len(tp) - 1) = tp

InitLocal ==
    /\ NoSplit /\ BotStart /\ NoRun
    /\ FetchIdle /\ AdIdle /\ KeyIdle /\ StoreIdle /\ MediaIdle
    /\ SanitizeIdle /\ RetryIdle /\ MainIdle
    /\ \E t \in LocalTexts, d \in DOMAIN TOPONYMS :
          locating = [pc |-> "filter", text |-> t, toponyms |-> TOPONYMS[d],
                      low |-> <<>>, result |-> FALSE, passes |-> FALSE]

\* `if toponyms and not mentions_local(full_text, toponyms): continue`:
\* without keywords the post passes and mentions_local is not called
LocalGuard ==
    /\ locating.pc = "filter"
    /\ locating' = IF locating.toponyms = {}
                   THEN [locating EXCEPT !.pc = "filtered", !.passes = TRUE]
                   ELSE [locating EXCEPT !.pc = "called"]
    /\ UNCHANGED <<chunkVars, botVars, runVars, besidesLocating>>

\* low = (text or "").lower().replace(...)
MentionsLower ==
    /\ locating.pc = "called"
    /\ locating' = [locating EXCEPT !.pc = "lowered",
                                    !.low = YoReplaced(Lowered(locating.text))]
    /\ UNCHANGED <<chunkVars, botVars, runVars, besidesLocating>>

\* return any(tp in low for tp in toponyms), and the filter's decision
MentionsAny ==
    /\ locating.pc = "lowered"
    /\ LET found == \E tp \in locating.toponyms : Within(tp, locating.low)
       IN locating' = [locating EXCEPT !.pc = "filtered", !.result = found,
                                       !.passes = found]
    /\ UNCHANGED <<chunkVars, botVars, runVars, besidesLocating>>

NextLocal == LocalGuard \/ MentionsLower \/ MentionsAny

SpecLocal == InitLocal /\ [][NextLocal]_vars

\* C30: a post whose text holds a keyword of the target's set, letter for
\* letter apart from capitals, passes the toponym test, also when the
\* keyword is spelled with yo; a target without keywords lets every post
\* pass.
C30_KeywordInTextPasses ==
    locating.pc = "filtered" =>
        /\ locating.toponyms = {} => locating.passes
        /\ (\E tp \in locating.toponyms : Within(tp, Lowered(locating.text)))
              => locating.passes

====
